---- MODULE Spec2Model ----
(***************************************************************************)
(* A model of the Ultralytics analytics server: the event store (events    *)
(* and sessions tables), the single-event and batch ingestion handlers,    *)
(* the dashboard rollups (materialized views) with their refresh, the      *)
(* retention cleanup, the user-data deletion, anonymization and export,  *)
(* the funnel and cohort analyzers, the event scans, the session replay,   *)
(* the timeline, the dashboard summary, and the browser client.            *)
(*                                                                         *)
(* Every `await` of a handler is a scheduling point: a handler is a        *)
(* process whose steps are the stretches of code between two awaits.       *)
(* A SQL statement is one atomic step of the database.                     *)
(***************************************************************************)
EXTENDS Integers, Sequences, FiniteSets, TLC

(* ------------------------------ bounds -------------------------------- *)

\* Number of requests the server handles concurrently.
NumReq == 2
\* Rows the events table ever receives in a run.
MaxEvents == 3
\* The wall clock of the ingestion runs goes from 0 to MaxTime.
MaxTime == 2
\* Longest batch body.
MaxBatch == 2
\* Time is counted in units of 1/HourLen hour.
HourLen == 2
DayLen == 24 * HourLen

(* ------------------------------ values -------------------------------- *)

NULL == "null"
\* An absent client timestamp (eventData.timestamp is undefined or null).
NoTimestamp == -1
Names == {"signup", "purchase"}
SessionIds == {"s1", "s2"}
UserIds == {"u1"}
Slots == 1..NumReq

\* Date.prototype.toISOString(): the instant written as a date-time string,
\* here the digits DDHHUU of its day, its hour of the day and its unit of the
\* hour.
toISOString(t) ==
    (t \div DayLen) * 10000 + ((t % DayLen) \div HourLen) * 100 + (t % HourLen)

\* new Date(string): the instant a date-time string denotes.
NewDate(string) ==
    (string \div 10000) * DayLen + ((string % 10000) \div 100) * HourLen + (string % 100)

\* The properties objects of the model; {} is what an event sent without
\* properties is stored with.
EmptyProperties == "{}"
PropertiesValues == {EmptyProperties, "{plan:pro}"}

\* properties || {}
OrEmpty(properties) == IF properties = NULL THEN EmptyProperties ELSE properties

\* A request body's event: the name may be missing (""), the session id, the
\* user id, the client timestamp (a date-time string) and the properties may
\* be absent.
Input(name, sessionId, userId, timestamp) ==
    [name |-> name, sessionId |-> sessionId, userId |-> userId,
     timestamp |-> timestamp, properties |-> NULL]

\* The bodies POST /api/events is sent: with or without a session id, one
\* with a client timestamp (later than the clock gets), one without a name.
SingleInputs ==
    {Input("signup", "s1", NULL, NoTimestamp), Input("signup", "s2", NULL, NoTimestamp),
     Input("signup", NULL, NULL, toISOString(5)), Input("", "s1", NULL, NoTimestamp)}

\* The events POST /api/events/batch is sent.
BatchInputs ==
    {Input("signup", "s1", NULL, NoTimestamp), Input("signup", "s2", NULL, NoTimestamp),
     Input("signup", NULL, NULL, toISOString(0)), Input("", "s1", NULL, NoTimestamp)}

RECURSIVE SeqsUpTo(_, _)
SeqsUpTo(S, n) ==
    IF n = 0 THEN {<<>>}
    ELSE LET shorter == SeqsUpTo(S, n - 1)
         IN shorter \cup {Append(q, x) : q \in {p \in shorter : Len(p) = n - 1}, x \in S}

BatchBodies == SeqsUpTo(BatchInputs, MaxBatch)

VARIABLES
    events,     \* the events table: a set of rows
    nextId,     \* the SERIAL sequence behind events.id
    sessions,   \* the sessions table: session id -> row
    now,        \* the wall clock (server and database)
    req,        \* the ingestion requests in flight, one per slot
    hist,       \* history: acked[s], the events carrying session id s that
                \* were sent in requests answered 201; hourlyFrom, the
                \* NOW() - INTERVAL '7 days' of the hourly view's last
                \* computation
    funnel,     \* the funnel analysis in progress, or its answer
    cohort,     \* the cohort analysis in progress, or its answer
    overTime,   \* the GET /events-over-time request in progress, or its answer
    exported,   \* the user-data export and the re-ingestion of its records
    client,     \* the browser client: its fields, localStorage, its clock
    scan,       \* the last read request (event scan, replay, timeline,
                \* summary) and its answer
    migrated,   \* whether the materialized views have been created
    daily_event_stats,   \* the daily materialized view: a set of rows
    hourly_event_stats,  \* the hourly materialized view: a set of rows
    refresh,    \* the POST /refresh requests in flight, one per slot
    cleanup     \* the retention cleanup job

rollups == <<migrated, daily_event_stats, hourly_event_stats, refresh, cleanup>>
queries == <<funnel, cohort, exported, client, scan>>
readSide == <<funnel, cohort, overTime, exported, client, scan, migrated, daily_event_stats, hourly_event_stats, refresh, cleanup>>
vars == <<events, nextId, sessions, now, req, hist, funnel, cohort, overTime, exported,
          client, scan, migrated,
          daily_event_stats, hourly_event_stats, refresh, cleanup>>

(* --------------------------- the event store -------------------------- *)

\* INSERT INTO events (...) VALUES (...) RETURNING id, of the event the
\* handler built: {name, properties: properties || {}, sessionId, userId,
\* timestamp}.
EventRow(id, event) ==
    [id |-> id, name |-> event.name, properties |-> OrEmpty(event.properties),
     session_id |-> event.sessionId, user_id |-> event.userId,
     timestamp |-> event.timestamp]

storeEvent(table, id, event) == table \cup {EventRow(id, event)}

\* A mutant of updateSession: ON CONFLICT DO NOTHING, the row is created and
\* never updated.
updateSessionDoNothing(table, sessionId, t) ==
    IF sessionId \in DOMAIN table THEN table
    ELSE [s \in DOMAIN table \cup {sessionId} |->
            IF s = sessionId
            THEN [started_at |-> t, last_activity_at |-> t, event_count |-> 1]
            ELSE table[s]]

\* A mutant of updateSession: the update branch also resets started_at.
updateSessionRestart(table, sessionId, t) ==
    [s \in DOMAIN table \cup {sessionId} |->
        IF s # sessionId THEN table[s]
        ELSE IF s \in DOMAIN table
        THEN [started_at |-> t, last_activity_at |-> t,
              event_count |-> table[s].event_count + 1]
        ELSE [started_at |-> t, last_activity_at |-> t, event_count |-> 1]]

\* INSERT INTO sessions (id, started_at, last_activity_at, event_count)
\* VALUES ($1, NOW(), NOW(), 1)
\* ON CONFLICT (id) DO UPDATE SET last_activity_at = NOW(),
\*                                event_count = sessions.event_count + 1
\* t is the statement's NOW(): the time its transaction started.
updateSession(table, sessionId, t) ==
    [s \in DOMAIN table \cup {sessionId} |->
        IF s # sessionId THEN table[s]
        ELSE IF s \in DOMAIN table
        THEN [started_at |-> table[s].started_at, last_activity_at |-> t,
              event_count |-> table[s].event_count + 1]
        ELSE [started_at |-> t, last_activity_at |-> t, event_count |-> 1]]

(* ----------------------------- validation ----------------------------- *)

\* eventSchema's properties.
EventFields == {"name", "properties", "sessionId", "userId", "timestamp"}

\* eventSchema: name is required, a string of 1..255 characters;
\* additionalProperties: false.
validateEventData(body) ==
    /\ body.name # ""
    /\ DOMAIN body \subseteq EventFields

\* A mutant of validateBatchEventData: the items are not validated.
validateBatchEventDataLax(body) == Len(body) >= 1

\* batchEventSchema: events has at least one item, each an eventSchema.
validateBatchEventData(body) ==
    /\ Len(body) >= 1
    /\ \A k \in 1..Len(body) : validateEventData(body[k])

(* ------------------------- ingestion handlers ------------------------- *)

\* A request slot: the handler's locals (body, i, ts, results,
\* sessionsToUpdate, j), the running session statement's NOW() (stmtNow), how
\* often updateSession has returned (upserts), and at "done" the answer
\* (status, eventIds).
IdleReq ==
    [kind |-> "idle", pc |-> "idle", body |-> <<>>, i |-> 0, ts |-> 0,
     results |-> <<>>, sessionsToUpdate |-> <<>>, j |-> 0, stmtNow |-> 0,
     status |-> 0, eventIds |-> <<>>, upserts |-> 0]

\* Rows the requests in flight may still insert.
Pending(r) == IF req[r].pc = "store" THEN Len(req[r].body) - req[r].i + 1 ELSE 0

RECURSIVE SumPending(_)
SumPending(S) ==
    IF S = {} THEN 0
    ELSE LET r == CHOOSE x \in S : TRUE IN Pending(r) + SumPending(S \ {r})

Room == MaxEvents - (nextId - 1) - SumPending(Slots)

\* Events of a body that carry session id s.
RECURSIVE CountSession(_, _)
CountSession(body, s) ==
    IF body = <<>> THEN 0
    ELSE (IF Head(body).sessionId = s THEN 1 ELSE 0) + CountSession(Tail(body), s)

Acked(body) == [s \in SessionIds |-> hist.acked[s] + CountSession(body, s)]

\* A mutant of SetAdd: a list, every insertion kept.
SetAddList(seq, x) == Append(seq, x)

\* new Set(): add keeps the first insertion, iteration is in insertion order.
SetAdd(seq, x) == IF \E k \in 1..Len(seq) : seq[k] = x THEN seq ELSE Append(seq, x)

\* The answer: res.status(201).json({success, eventIds: results, count}), or
\* next(error) answered by the error handler with {error, message} alone.
Answered(r, code, results, upserts) ==
    [IdleReq EXCEPT !.kind = req[r].kind, !.pc = "done", !.body = req[r].body,
                    !.status = code, !.results = results,
                    !.eventIds = IF code = 201 THEN results ELSE <<>>,
                    !.upserts = upserts, !.stmtNow = req[r].stmtNow]

\* A slot takes a request when it is free.
Free(r) == req[r].pc \in {"idle", "done"}

\* POST /api/events up to the first await: validate, build the event with
\* timestamp new Date(), issue the INSERT.
SingleReceive(r) ==
    /\ Free(r)
    /\ \E input \in SingleInputs :
        IF ~validateEventData(input)
        THEN req' = [req EXCEPT ![r] = [IdleReq EXCEPT !.kind = "single",
                        !.body = <<input>>, !.pc = "done", !.status = 400]]
        ELSE /\ Room >= 1
             /\ req' = [req EXCEPT ![r] = [IdleReq EXCEPT !.kind = "single",
                        !.body = <<input>>, !.pc = "store", !.i = 1, !.ts = now]]
    /\ UNCHANGED <<events, nextId, sessions, now, hist>>
    /\ UNCHANGED readSide

\* await db.storeEvent(event) returns; if (sessionId) the upsert is issued,
\* else the handler answers.
SingleStore(r) ==
    /\ req[r].kind = "single" /\ req[r].pc = "store"
    /\ LET input == req[r].body[1]
           event == [input EXCEPT !.timestamp = req[r].ts]
       IN /\ events' = storeEvent(events, nextId, event)
          /\ nextId' = nextId + 1
          /\ IF input.sessionId # NULL
             THEN /\ req' = [req EXCEPT ![r].pc = "upsert", ![r].results = <<nextId>>,
                                 ![r].sessionsToUpdate = <<input.sessionId>>,
                                 ![r].j = 1, ![r].stmtNow = now]
                  /\ hist' = hist
             ELSE /\ req' = [req EXCEPT ![r] = Answered(r, 201, <<nextId>>, 0)]
                  /\ hist' = [hist EXCEPT !.acked = Acked(req[r].body)]
    /\ UNCHANGED <<sessions, now>>
    /\ UNCHANGED readSide

\* POST /api/events/batch up to the first await: validate the whole body,
\* then enter the loop: build the first event, issue its INSERT.
BatchAccept(r, body) ==
    /\ Free(r)
    /\ IF ~validateBatchEventData(body)
       THEN req' = [req EXCEPT ![r] = [IdleReq EXCEPT !.kind = "batch",
                       !.body = body, !.pc = "done", !.status = 400]]
       ELSE req' = [req EXCEPT ![r] = [IdleReq EXCEPT !.kind = "batch",
                       !.body = body, !.pc = "store", !.i = 1, !.ts = now]]
    /\ UNCHANGED <<events, nextId, sessions, now, hist>>

BatchReceive(r) ==
    /\ \E body \in BatchBodies :
        /\ validateBatchEventData(body) => Room >= Len(body)
        /\ BatchAccept(r, body)
    /\ UNCHANGED readSide

\* A mutant of BatchTimestamp: new Date() whatever the body says, as the
\* single-event handler does.
BatchTimestampServer(eventData, t) == t

\* eventData.timestamp ? new Date(eventData.timestamp) : new Date()
BatchTimestamp(eventData, t) ==
    IF eventData.timestamp # NoTimestamp THEN NewDate(eventData.timestamp) ELSE t

\* One turn of the batch loop: await db.storeEvent(event) returns, the id is
\* pushed, the session id noted; then the next event's INSERT is issued, or
\* after the last one the first session's upsert, or the answer is sent.
BatchStore(r) ==
    /\ req[r].kind = "batch" /\ req[r].pc = "store"
    /\ LET eventData == req[r].body[req[r].i]
           event == [eventData EXCEPT !.timestamp = BatchTimestamp(eventData, req[r].ts)]
           results == Append(req[r].results, nextId)
           toUpdate == IF eventData.sessionId # NULL
                       THEN SetAdd(req[r].sessionsToUpdate, eventData.sessionId)
                       ELSE req[r].sessionsToUpdate
       IN /\ events' = storeEvent(events, nextId, event)
          /\ nextId' = nextId + 1
          /\ IF req[r].i < Len(req[r].body)
             THEN /\ req' = [req EXCEPT ![r].i = req[r].i + 1, ![r].ts = now,
                                 ![r].results = results,
                                 ![r].sessionsToUpdate = toUpdate]
                  /\ hist' = hist
             ELSE IF toUpdate # <<>>
             THEN /\ req' = [req EXCEPT ![r].pc = "upsert", ![r].results = results,
                                 ![r].sessionsToUpdate = toUpdate,
                                 ![r].j = 1, ![r].stmtNow = now]
                  /\ hist' = hist
             ELSE /\ req' = [req EXCEPT ![r] = Answered(r, 201, results, 0)]
                  /\ hist' = [hist EXCEPT !.acked = Acked(req[r].body)]
    /\ UNCHANGED <<sessions, now>>
    /\ UNCHANGED readSide

\* The INSERT fails (connection lost, constraint): storeEvent throws, the
\* handler's catch passes the error on, the caller is answered 500.
StoreFail(r) ==
    /\ req[r].pc = "store"
    /\ req' = [req EXCEPT ![r] = Answered(r, 500, req[r].results, req[r].upserts)]
    /\ UNCHANGED <<events, nextId, sessions, now, hist>>
    /\ UNCHANGED readSide

\* The session statement fails: updateSession throws.
UpsertFail(r) ==
    /\ req[r].pc = "upsert"
    /\ req' = [req EXCEPT ![r] = Answered(r, 500, req[r].results, req[r].upserts)]
    /\ UNCHANGED <<events, nextId, sessions, now, hist>>
    /\ UNCHANGED readSide

\* await db.updateSession(sessionId) returns: the statement, which started at
\* stmtNow, has written the row; the handler goes on to the next session id
\* (for (const sessionId of sessionsToUpdate)) or answers 201.
UpsertApply(r) ==
    /\ req[r].pc = "upsert"
    /\ LET sid == req[r].sessionsToUpdate[req[r].j]
       IN /\ sessions' = updateSession(sessions, sid, req[r].stmtNow)
          /\ IF req[r].j < Len(req[r].sessionsToUpdate)
             THEN /\ req' = [req EXCEPT ![r].j = req[r].j + 1, ![r].stmtNow = now,
                                        ![r].upserts = req[r].upserts + 1]
                  /\ hist' = hist
             ELSE /\ req' = [req EXCEPT ![r] =
                                Answered(r, 201, req[r].results, req[r].upserts + 1)]
                  /\ hist' = [hist EXCEPT !.acked = Acked(req[r].body)]
    /\ UNCHANGED <<events, nextId, now>>
    /\ UNCHANGED readSide

\* Time passes.
Tick ==
    /\ now < MaxTime
    /\ now' = now + 1
    /\ UNCHANGED <<events, nextId, sessions, req, hist>>
    /\ UNCHANGED readSide

\* A batch request of one event run to its answer with no other step in
\* between: the event is stored and, if it carries a session id, the session
\* upserted.
IngestUpTo(input, max) ==
    /\ nextId <= max
    /\ validateEventData(input)
    /\ events' = storeEvent(events, nextId,
                    [input EXCEPT !.timestamp = BatchTimestamp(input, now)])
    /\ nextId' = nextId + 1
    /\ sessions' = IF input.sessionId # NULL
                   THEN updateSession(sessions, input.sessionId, now)
                   ELSE sessions
    /\ hist' = [hist EXCEPT !.acked = Acked(<<input>>)]
    /\ UNCHANGED <<now, req>>

IngestOne(input) == IngestUpTo(input, MaxEvents)

(* -------------------------- funnel analysis --------------------------- *)

\* Longest funnel.
MaxSteps == 3

\* The events the funnel runs ingest: two names, two sessions or none, the
\* client timestamps 5 and 10.
FunnelInputs ==
    {Input(n, sid, NULL, toISOString(t)) : n \in Names, sid \in SessionIds \cup {NULL}, t \in {5, 10}}

FunnelStepLists == SeqsUpTo(Names, MaxSteps) \ {<<>>}
FunnelWindows == {<<0, 10>>, <<6, 10>>}

IdleFunnel ==
    [pc |-> "idle", steps |-> <<>>, startDate |-> 0, endDate |-> 0, i |-> 0,
     previousCount |-> 0, stepResults |-> <<>>, status |-> 0,
     totalStarted |-> 0, totalCompleted |-> 0, overallConversionRate |-> 0]

\* Math.round(n / d), d > 0: halves go up.
MathRound(n, d) == (2 * n + d) \div (2 * d)

\* simpleQuery: SELECT COUNT(DISTINCT session_id) FROM events
\* WHERE event_name = $1 AND timestamp >= $2 AND timestamp <= $3
\* (COUNT(DISTINCT) skips NULL).
StepSessions(eventName, startDate, endDate) ==
    {e.session_id : e \in {x \in events : /\ x.name = eventName
                                           /\ x.timestamp >= startDate
                                           /\ x.timestamp <= endDate}} \ {NULL}

StepCount(eventName, startDate, endDate) ==
    Cardinality(StepSessions(eventName, startDate, endDate))

\* One entry of stepResults. Rates are kept in hundredths of a percent:
\* Math.round(rate * 100) / 100 of rate = count / previousCount * 100.
StepResult(i, eventName, count, previousCount) ==
    LET conversionRate == IF i = 1 THEN 10000
                          ELSE IF previousCount > 0
                               THEN MathRound(count * 10000, previousCount)
                               ELSE 0
        dropoffRate == IF i = 1 THEN 0
                       ELSE IF previousCount > 0
                            THEN MathRound((previousCount - count) * 10000, previousCount)
                            ELSE 10000
    IN [step |-> i, eventName |-> eventName, count |-> count,
        conversionRate |-> conversionRate, dropoffRate |-> dropoffRate]

\* POST /api/analytics/funnel: fewer than two steps is answered 400, else
\* analyzeFunnel enters its loop and issues the first step's query.
FunnelStart ==
    /\ funnel.pc \in {"idle", "done"}
    /\ \E steps \in FunnelStepLists, w \in FunnelWindows :
        funnel' = IF Len(steps) < 2
                  THEN [IdleFunnel EXCEPT !.pc = "done", !.steps = steps, !.status = 400]
                  ELSE [IdleFunnel EXCEPT !.pc = "query", !.steps = steps, !.i = 1,
                                          !.startDate = w[1], !.endDate = w[2]]
    /\ UNCHANGED <<events, nextId, sessions, now, req, hist>>
    /\ UNCHANGED rollups
    /\ UNCHANGED <<cohort, overTime, exported, client, scan>>

\* One turn of analyzeFunnel's loop: await pool.query(simpleQuery) returns
\* the step's count; after the last step the totals are computed and the
\* result is answered.
FunnelStep ==
    /\ funnel.pc = "query"
    /\ LET i == funnel.i
           count == StepCount(funnel.steps[i], funnel.startDate, funnel.endDate)
           stepResults == Append(funnel.stepResults,
                            StepResult(i, funnel.steps[i], count, funnel.previousCount))
           totalStarted == stepResults[1].count
           totalCompleted == stepResults[Len(stepResults)].count
       IN funnel' =
            IF i < Len(funnel.steps)
            THEN [funnel EXCEPT !.i = i + 1, !.previousCount = count,
                                !.stepResults = stepResults]
            ELSE [funnel EXCEPT !.pc = "done", !.status = 200, !.i = 0,
                                !.previousCount = 0,
                                !.stepResults = stepResults,
                                !.totalStarted = totalStarted,
                                !.totalCompleted = totalCompleted,
                                !.overallConversionRate =
                                    IF totalStarted > 0
                                    THEN MathRound(totalCompleted * 10000, totalStarted)
                                    ELSE 0]
    /\ UNCHANGED <<events, nextId, sessions, now, req, hist>>
    /\ UNCHANGED rollups
    /\ UNCHANGED <<cohort, overTime, exported, client, scan>>

\* pool.query throws: analyzeFunnel rejects, the route hands the error to the
\* error handler, which answers 500.
FunnelFail ==
    /\ funnel.pc = "query"
    /\ funnel' = [IdleFunnel EXCEPT !.pc = "done", !.steps = funnel.steps,
                                    !.startDate = funnel.startDate,
                                    !.endDate = funnel.endDate, !.status = 500]
    /\ UNCHANGED <<events, nextId, sessions, now, req, hist>>
    /\ UNCHANGED rollups
    /\ UNCHANGED <<cohort, overTime, exported, client, scan>>

FunnelIngest ==
    /\ \E input \in FunnelInputs : IngestOne(input)
    /\ UNCHANGED readSide

(* -------------------------- cohort analysis --------------------------- *)

\* DATE_TRUNC(unit, timestamp), unit being len long
DateTrunc(len, t) == (t \div len) * len

\* Events in the table of the cohort runs, and periods asked for.
MaxCohortEvents == 4
MaxPeriods == 2

CohortUsers == {"u1", "u2"}

\* The events the cohort runs ingest: signups and purchases of two users on
\* the first day and the second, and a signup without a user.
CohortInputs ==
    {Input("signup", NULL, "u1", toISOString(1)),
     Input("signup", NULL, "u1", toISOString(DayLen + 1)),
     Input("signup", NULL, "u2", toISOString(DayLen + 1)),
     Input("purchase", NULL, "u1", toISOString(DayLen + 1)),
     Input("purchase", NULL, "u2", toISOString(DayLen + 1)),
     Input("signup", NULL, NULL, toISOString(DayLen + 1))}

\* The queries POST /cohort is sent: granularity 'day', cohortEvent signup,
\* either return event, a window of both days or of the second, and a number
\* of periods in range or not.
CohortQueries ==
    [cohortEvent : {"signup"}, returnEvent : Names,
     startDate : {0, DayLen}, endDate : {2 * DayLen}, periods : {-1, MaxPeriods}]

IdleCohort ==
    [pc |-> "idle", query |-> <<>>, rows |-> <<>>, c |-> 0, p |-> 0,
     periodResults |-> <<>>, cohorts |-> <<>>, totalUsers |-> 0,
     periodTotals |-> <<>>, averageRetention |-> <<>>, status |-> 0, startId |-> 0]

MinOf(S) == CHOOSE x \in S : \A y \in S : x <= y

\* cohort_users of simpleCohortQuery: user_id -> DATE_TRUNC($1, MIN(timestamp))
\* over the rows WHERE event_name = $2 AND timestamp >= $3 AND timestamp <= $4
\* AND user_id IS NOT NULL, GROUP BY user_id
CohortOf(table, q) ==
    LET rows == {e \in table : /\ e.name = q.cohortEvent
                               /\ e.timestamp >= q.startDate
                               /\ e.timestamp <= q.endDate
                               /\ e.user_id # NULL}
    IN [u \in {e.user_id : e \in rows} |->
            DateTrunc(DayLen, MinOf({e.timestamp : e \in {x \in rows : x.user_id = u}}))]

\* SELECT cohort_date, COUNT(DISTINCT user_id) AS cohort_size FROM cohort_users
\* GROUP BY cohort_date ORDER BY cohort_date
RECURSIVE SortRows(_)
SortRows(S) ==
    IF S = {} THEN <<>>
    ELSE LET first == CHOOSE x \in S : \A y \in S : x.cohort_date <= y.cohort_date
         IN <<first>> \o SortRows(S \ {first})

\* A mutant of CohortRows: the rows are per defining event, not per user.
CohortRowsPerEvent(table, q) ==
    LET rows == {e \in table : /\ e.name = q.cohortEvent
                               /\ e.timestamp >= q.startDate
                               /\ e.timestamp <= q.endDate
                               /\ e.user_id # NULL}
    IN SortRows({[cohort_date |-> DateTrunc(DayLen, e.timestamp),
                  cohort_size |-> Cardinality({x \in rows :
                        DateTrunc(DayLen, x.timestamp) = DateTrunc(DayLen, e.timestamp)})]
                 : e \in rows})

CohortRows(table, q) ==
    LET cu == CohortOf(table, q)
    IN SortRows({[cohort_date |-> cu[u],
                  cohort_size |-> Cardinality({v \in DOMAIN cu : cu[v] = cu[u]})]
                 : u \in DOMAIN cu})

\* retentionQuery: COUNT(DISTINCT e.user_id) FROM events e INNER JOIN
\* cohort_users cu ON e.user_id = cu.user_id WHERE e.event_name = $4 AND
\* e.timestamp >= $3 + p units AND e.timestamp < $3 + (p + 1) units, the
\* query's own cohort_users being the users of the rows WHERE event_name = $1
\* AND DATE_TRUNC($2, timestamp) = $3 AND user_id IS NOT NULL
ReturnCount(table, q, cohortDate, p) ==
    LET cu == {e.user_id : e \in {x \in table : /\ x.name = q.cohortEvent
                                                /\ DateTrunc(DayLen, x.timestamp) = cohortDate
                                                /\ x.user_id # NULL}}
    IN Cardinality({e.user_id : e \in {x \in table :
            /\ x.name = q.returnEvent
            /\ x.timestamp >= cohortDate + p * DayLen
            /\ x.timestamp < cohortDate + (p + 1) * DayLen
            /\ x.user_id \in cu}})

\* One entry of periodResults; the rate is kept in hundredths of a percent:
\* Math.round(retentionRate * 100) / 100.
PeriodResult(p, returnCount, cohortSize) ==
    [period |-> p, count |-> returnCount,
     retentionRate |-> IF cohortSize > 0 THEN MathRound(returnCount * 10000, cohortSize)
                       ELSE 0]

\* periodTotals[p] += retentionRate: the sum of the unrounded rates
\* returnCount / cohortSize, kept as a fraction <<numerator, denominator>>.
AddRate(total, returnCount, cohortSize) ==
    IF cohortSize > 0
    THEN <<total[1] * cohortSize + returnCount * total[2], total[2] * cohortSize>>
    ELSE total

\* Math.round(total / periodCounts[idx] * 100) / 100, in hundredths of a
\* percent; periodCounts[idx] is the number of cohorts.
AverageRetention(periodTotals, periodCounts) ==
    [k \in 1..Len(periodTotals) |->
        IF periodCounts > 0
        THEN MathRound(periodTotals[k][1] * 10000, periodTotals[k][2] * periodCounts)
        ELSE 0]

\* POST /api/analytics/cohort: periods out of 1..52 is answered 400, else
\* analyzeCohort issues simpleCohortQuery.
CohortStart ==
    /\ cohort.pc \in {"idle", "done"}
    /\ \E q \in CohortQueries :
        cohort' = IF q.periods < 1
                  THEN [IdleCohort EXCEPT !.pc = "done", !.query = q, !.status = 400]
                  ELSE [IdleCohort EXCEPT !.pc = "sizes", !.query = q]
    /\ UNCHANGED <<events, nextId, sessions, now, req, hist, funnel, overTime, exported, client, scan>>
    /\ UNCHANGED rollups

\* The answer of analyzeCohort once the loop over the rows is over.
CohortAnswer(c) ==
    [c EXCEPT !.pc = "done", !.status = 200, !.c = 0, !.p = 0,
              !.periodResults = <<>>,
              !.averageRetention = AverageRetention(c.periodTotals, Len(c.cohorts))]

\* await pool.query(simpleCohortQuery) returns the cohorts and their sizes;
\* the loops start with the first cohort's period 0, or with no row the
\* answer is sent.
CohortSizes ==
    /\ cohort.pc = "sizes"
    /\ LET rows == CohortRows(events, cohort.query)
           started == [cohort EXCEPT !.rows = rows, !.startId = nextId,
                            !.periodTotals = [k \in 1..cohort.query.periods |-> <<0, 1>>]]
       IN cohort' = IF rows = <<>> THEN CohortAnswer(started)
                    ELSE [started EXCEPT !.pc = "period", !.c = 1, !.p = 0,
                                         !.totalUsers = rows[1].cohort_size]
    /\ UNCHANGED <<events, nextId, sessions, now, req, hist, funnel, overTime, exported, client, scan>>
    /\ UNCHANGED rollups

\* await pool.query(retentionQuery) returns for cohort c and period p; the
\* next period's query is issued, or the cohort is pushed and the next
\* cohort's first query is issued, or the answer is sent.
CohortPeriod ==
    /\ cohort.pc = "period"
    /\ LET row == cohort.rows[cohort.c]
           p == cohort.p
           returnCount == ReturnCount(events, cohort.query, row.cohort_date, p)
           periodResults == Append(cohort.periodResults,
                                PeriodResult(p, returnCount, row.cohort_size))
           periodTotals == [cohort.periodTotals EXCEPT ![p + 1] =
                                AddRate(@, returnCount, row.cohort_size)]
           cohorts == Append(cohort.cohorts,
                        [cohortDate |-> row.cohort_date, cohortSize |-> row.cohort_size,
                         periods |-> periodResults])
       IN cohort' =
            IF p + 1 < cohort.query.periods
            THEN [cohort EXCEPT !.p = p + 1, !.periodResults = periodResults,
                                !.periodTotals = periodTotals]
            ELSE IF cohort.c < Len(cohort.rows)
            THEN [cohort EXCEPT !.c = cohort.c + 1, !.p = 0, !.periodResults = <<>>,
                                !.periodTotals = periodTotals, !.cohorts = cohorts,
                                !.totalUsers = cohort.totalUsers
                                                + cohort.rows[cohort.c + 1].cohort_size]
            ELSE CohortAnswer([cohort EXCEPT !.periodTotals = periodTotals,
                                             !.cohorts = cohorts])
    /\ UNCHANGED <<events, nextId, sessions, now, req, hist, funnel, overTime, exported, client, scan>>
    /\ UNCHANGED rollups

\* pool.query throws: analyzeCohort rejects, the error handler answers 500.
CohortFail ==
    /\ cohort.pc \in {"sizes", "period"}
    /\ cohort' = [IdleCohort EXCEPT !.pc = "done", !.query = cohort.query, !.status = 500]
    /\ UNCHANGED <<events, nextId, sessions, now, req, hist, funnel, overTime, exported, client, scan>>
    /\ UNCHANGED rollups

CohortIngest ==
    /\ \E input \in CohortInputs : IngestUpTo(input, MaxCohortEvents)
    /\ UNCHANGED readSide

(* ------------------------------ rollups ------------------------------- *)

\* hourly_event_stats keeps timestamp >= NOW() - INTERVAL '7 days'.
HourlyDays == 7
\* config.retention.days
RetentionDays == 90
\* POST /refresh requests handled concurrently.
NumRefresh == 2
RefreshSlots == 1..NumRefresh

\* The clock of the rollup runs: the start, and past the retention period.
RollupClock == {0, (RetentionDays + 1) * DayLen}

\* The events the rollup runs ingest: in the first day or the second, with
\* or without a user.
RollupInputs ==
    {Input("signup", "s1", "u1", toISOString(1)),
     Input("signup", "s2", NULL, toISOString(DayLen + 1)),
     Input("signup", NULL, NULL, NoTimestamp)}

RECURSIVE SumEventCount(_)
SumEventCount(rows) ==
    IF rows = {} THEN 0
    ELSE LET r == CHOOSE x \in rows : TRUE
         IN r.event_count + SumEventCount(rows \ {r})

\* SELECT DATE_TRUNC('day', timestamp) AS day, name AS event_name,
\*        COUNT(*), COUNT(DISTINCT session_id), COUNT(DISTINCT user_id)
\* FROM events GROUP BY DATE_TRUNC('day', timestamp), name
DailyRows(table) ==
    {LET group == {x \in table :
                    /\ DateTrunc(DayLen, x.timestamp) = DateTrunc(DayLen, e.timestamp)
                    /\ x.name = e.name}
     IN [day |-> DateTrunc(DayLen, e.timestamp), event_name |-> e.name,
         event_count |-> Cardinality(group),
         unique_sessions |-> Cardinality({x.session_id : x \in group} \ {NULL}),
         unique_users |-> Cardinality({x.user_id : x \in group} \ {NULL})]
     : e \in table}

\* NOW() - INTERVAL '7 days', NOW() being t
HourlyFrom(t) == t - HourlyDays * DayLen

\* SELECT DATE_TRUNC('hour', timestamp) AS hour, name AS event_name,
\*        COUNT(*), COUNT(DISTINCT session_id)
\* FROM events WHERE timestamp >= NOW() - INTERVAL '7 days'
\* GROUP BY DATE_TRUNC('hour', timestamp), name
HourlyRows(table, t) ==
    LET recent == {x \in table : x.timestamp >= HourlyFrom(t)}
    IN {LET group == {x \in recent :
                       /\ DateTrunc(HourLen, x.timestamp) = DateTrunc(HourLen, e.timestamp)
                       /\ x.name = e.name}
        IN [hour |-> DateTrunc(HourLen, e.timestamp), event_name |-> e.name,
            event_count |-> Cardinality(group),
            unique_sessions |-> Cardinality({x.session_id : x \in group} \ {NULL})]
        : e \in recent}

\* The migration: CREATE MATERIALIZED VIEW IF NOT EXISTS ... WITH DATA, for
\* both views, and the function refresh_dashboard_stats().
Migrate ==
    /\ ~migrated
    /\ migrated' = TRUE
    /\ daily_event_stats' = DailyRows(events)
    /\ hourly_event_stats' = HourlyRows(events, now)
    /\ hist' = [hist EXCEPT !.hourlyFrom = HourlyFrom(now)]
    /\ UNCHANGED <<events, nextId, sessions, now, req, queries, overTime, refresh, cleanup>>

IdleRefresh ==
    [pc |-> "idle", stmtNow |-> 0, daily |-> {}, status |-> 0, recomputed |-> FALSE]

RefreshFree(r) == refresh[r].pc \in {"idle", "done"}

\* POST /refresh: refreshMaterializedViews() issues
\* SELECT refresh_dashboard_stats(); its transaction starts.
RefreshStart(r) ==
    /\ RefreshFree(r)
    /\ refresh' = [refresh EXCEPT ![r] = [IdleRefresh EXCEPT !.pc = "called",
                                                             !.stmtNow = now]]
    /\ UNCHANGED <<events, nextId, sessions, now, req, hist, queries, overTime, migrated,
                   daily_event_stats, hourly_event_stats, cleanup>>

\* REFRESH MATERIALIZED VIEW CONCURRENTLY daily_event_stats: the view's lock
\* is taken (it is held to the end of the transaction, so a second refresh
\* waits here) and the new rows are computed; they show at the commit.
RefreshDaily(r) ==
    /\ refresh[r].pc = "called"
    /\ migrated
    /\ \A o \in RefreshSlots : refresh[o].pc # "hourly"
    /\ refresh' = [refresh EXCEPT ![r].pc = "hourly", ![r].daily = DailyRows(events)]
    /\ UNCHANGED <<events, nextId, sessions, now, req, hist, queries, overTime, migrated,
                   daily_event_stats, hourly_event_stats, cleanup>>

\* REFRESH MATERIALIZED VIEW hourly_event_stats, the function returns, the
\* transaction commits, the handler answers {success: true}.
RefreshHourly(r) ==
    /\ refresh[r].pc = "hourly"
    /\ daily_event_stats' = refresh[r].daily
    /\ hourly_event_stats' = HourlyRows(events, refresh[r].stmtNow)
    /\ refresh' = [refresh EXCEPT ![r] = [IdleRefresh EXCEPT !.pc = "done",
                                            !.status = 200, !.recomputed = TRUE]]
    /\ hist' = [hist EXCEPT !.hourlyFrom = HourlyFrom(refresh[r].stmtNow)]
    /\ UNCHANGED <<events, nextId, sessions, now, req, queries, overTime, migrated, cleanup>>

\* The query throws (the function does not exist before the migration, the
\* database fails): refreshMaterializedViews catches, warns and returns, the
\* handler answers {success: true}.
RefreshFail(r) ==
    /\ refresh[r].pc \in {"called", "hourly"}
    /\ refresh' = [refresh EXCEPT ![r] = [IdleRefresh EXCEPT !.pc = "done",
                                            !.status = 200, !.recomputed = FALSE]]
    /\ UNCHANGED <<events, nextId, sessions, now, req, hist, queries, overTime, migrated,
                   daily_event_stats, hourly_event_stats, cleanup>>

\* cleanup(): the cutoff is computed and
\* DELETE FROM events WHERE timestamp < $1 runs.
CleanupEvents ==
    /\ cleanup.pc = "idle"
    /\ LET cutoffDate == now - RetentionDays * DayLen
       IN /\ events' = {e \in events : ~(e.timestamp < cutoffDate)}
          /\ cleanup' = [pc |-> "sessions", cutoffDate |-> cutoffDate]
    /\ UNCHANGED <<nextId, sessions, now, req, hist, queries, overTime, migrated,
                   daily_event_stats, hourly_event_stats, refresh>>

\* DELETE FROM sessions WHERE last_activity_at < $1; the job returns.
CleanupSessions ==
    /\ cleanup.pc = "sessions"
    /\ sessions' = [s \in {x \in DOMAIN sessions :
                            ~(sessions[x].last_activity_at < cleanup.cutoffDate)}
                    |-> sessions[s]]
    /\ cleanup' = [pc |-> "idle", cutoffDate |-> 0]
    /\ UNCHANGED <<events, nextId, now, req, hist, queries, overTime, migrated,
                   daily_event_stats, hourly_event_stats, refresh>>

\* DELETE /api/privacy/users/:userId/data: deleteUserEvents runs
\* DELETE FROM events WHERE user_id = $1 (with no row deleted the answer is
\* 404 and nothing changes).
DeleteUser ==
    /\ \E userId \in UserIds :
        /\ \E e \in events : e.user_id = userId
        /\ events' = {e \in events : e.user_id # userId}
    /\ UNCHANGED <<nextId, sessions, now, req, hist, queries, overTime, migrated,
                   daily_event_stats, hourly_event_stats, refresh, cleanup>>

RollupIngest ==
    /\ \E input \in RollupInputs : IngestOne(input)
    /\ UNCHANGED readSide

\* Time passes, up to days at once.
Advance ==
    /\ \E t \in RollupClock : t > now /\ now' = t
    /\ UNCHANGED <<events, nextId, sessions, req, hist>>
    /\ UNCHANGED readSide

\* GET /summary on the materialized view: SELECT SUM(event_count)
\* FROM daily_event_stats WHERE day >= $1 AND day <= $2
RollupTotal(start, end) ==
    SumEventCount({r \in daily_event_stats : r.day >= start /\ r.day <= end})

\* GET /summary's fallback: SELECT COUNT(*) FROM events
\* WHERE timestamp >= $1 AND timestamp <= $2
RawTotal(start, end) ==
    Cardinality({e \in events : e.timestamp >= start /\ e.timestamp <= end})

(* ------------------------- events over time --------------------------- *)

\* The requests GET /events-over-time is sent: by day or by hour, over the
\* first two days or over the day after the retention period.
OverTimeQueries ==
    [interval : {"day", "hour"},
     window : {<<0, 2 * DayLen - 1>>,
               <<(RetentionDays + 1) * DayLen, (RetentionDays + 2) * DayLen - 1>>}]

IdleOverTime ==
    [pc |-> "idle", interval |-> "", start |-> 0, end |-> 0,
     useDailyView |-> FALSE, useHourlyView |-> FALSE, hourlyFrom |-> 0,
     data |-> {}, optimized |-> FALSE, status |-> 0]

\* SELECT EXISTS (SELECT FROM pg_matviews WHERE matviewname = $1): both views
\* exist once the migration has run.
canUseMaterializedView(exists) == exists

\* SELECT day AS period, SUM(event_count), SUM(unique_sessions)
\* FROM daily_event_stats WHERE day >= $1 AND day <= $2 GROUP BY day
\* (the hourly view has hour for day)
RECURSIVE SumField(_, _)
SumField(rows, field) ==
    IF rows = {} THEN 0
    ELSE LET r == CHOOSE x \in rows : TRUE
         IN r[field] + SumField(rows \ {r}, field)

ViewOverTime(periods, view, start, end) ==
    {[period |-> b,
      eventCount |-> SumField({r \in view : r.period = b}, "event_count"),
      sessionCount |-> SumField({r \in view : r.period = b}, "unique_sessions")]
     : b \in {x \in periods : x >= start /\ x <= end}}

DailyOverTime(start, end) ==
    ViewOverTime({r.day : r \in daily_event_stats},
                 {[period |-> r.day, event_name |-> r.event_name,
                   event_count |-> r.event_count,
                   unique_sessions |-> r.unique_sessions] : r \in daily_event_stats},
                 start, end)

HourlyOverTime(start, end) ==
    ViewOverTime({r.hour : r \in hourly_event_stats},
                 {[period |-> r.hour, event_name |-> r.event_name,
                   event_count |-> r.event_count,
                   unique_sessions |-> r.unique_sessions] : r \in hourly_event_stats},
                 start, end)

\* The fallback: SELECT DATE_TRUNC($1, timestamp) AS period, COUNT(*),
\* COUNT(DISTINCT session_id) FROM events
\* WHERE timestamp >= $2 AND timestamp <= $3 GROUP BY DATE_TRUNC($1, timestamp)
RawOverTime(len, start, end) ==
    LET inside == {e \in events : e.timestamp >= start /\ e.timestamp <= end}
    IN {LET group == {x \in inside :
                        DateTrunc(len, x.timestamp) = DateTrunc(len, e.timestamp)}
        IN [period |-> DateTrunc(len, e.timestamp),
            eventCount |-> Cardinality(group),
            sessionCount |-> Cardinality({x.session_id : x \in group} \ {NULL})]
        : e \in inside}

\* GET /events-over-time up to its first await: the dates are read and
\* canUseMaterializedView issues its query.
OverTimeStart ==
    /\ overTime.pc \in {"idle", "done"}
    /\ \E q \in OverTimeQueries :
        overTime' = [IdleOverTime EXCEPT !.pc = "check", !.interval = q.interval,
                                         !.start = q.window[1], !.end = q.window[2]]
    /\ UNCHANGED <<events, nextId, sessions, now, req, hist, queries>>
    /\ UNCHANGED rollups

\* canUseMaterializedView returns (false when its query throws); the query
\* on the view, or the fallback query, is issued.
OverTimeCheck ==
    /\ overTime.pc = "check"
    /\ \E exists \in {migrated, FALSE} :
        overTime' = [overTime EXCEPT
            !.pc = "query",
            !.useDailyView = overTime.interval = "day" /\ canUseMaterializedView(exists),
            !.useHourlyView = overTime.interval = "hour" /\ canUseMaterializedView(exists)]
    /\ UNCHANGED <<events, nextId, sessions, now, req, hist, queries>>
    /\ UNCHANGED rollups

\* The query returns and the answer is sent.
OverTimeQuery ==
    /\ overTime.pc = "query"
    /\ overTime' = [overTime EXCEPT
            !.pc = "done", !.status = 200,
            !.hourlyFrom = hist.hourlyFrom,
            !.data = IF overTime.useDailyView
                     THEN DailyOverTime(overTime.start, overTime.end)
                     ELSE IF overTime.useHourlyView
                     THEN HourlyOverTime(overTime.start, overTime.end)
                     ELSE RawOverTime(IF overTime.interval = "hour" THEN HourLen ELSE DayLen,
                                      overTime.start, overTime.end),
            !.optimized = overTime.useDailyView \/ overTime.useHourlyView]
    /\ UNCHANGED <<events, nextId, sessions, now, req, hist, queries>>
    /\ UNCHANGED rollups

\* The query throws: the error handler answers 500.
OverTimeFail ==
    /\ overTime.pc = "query"
    /\ overTime' = [IdleOverTime EXCEPT !.pc = "done", !.interval = overTime.interval,
                                        !.start = overTime.start, !.end = overTime.end,
                                        !.status = 500]
    /\ UNCHANGED <<events, nextId, sessions, now, req, hist, queries>>
    /\ UNCHANGED rollups

(* --------------------------- user-data export ------------------------- *)

\* Events the export runs ingest before the records are sent back.
MaxExportEvents == 2

\* The events the export runs ingest: of user u1 or of nobody, with or
\* without a session id, properties and a client timestamp.
ExportInputs ==
    {[Input(n, sid, u, t) EXCEPT !.properties = p] :
        n \in Names, sid \in {"s1", NULL}, u \in UserIds \cup {NULL},
        t \in {NoTimestamp, toISOString(DayLen + HourLen + 1)},
        p \in {NULL, "{plan:pro}"}}

\* The export before the request: userId, at "done" the answer (status,
\* events), at "sent" the records have been posted to the batch endpoint.
IdleExport == [pc |-> "idle", userId |-> NULL, status |-> 0, events |-> <<>>]

\* rows.map(row => ({id, name, properties: row.properties || {},
\*                   sessionId: row.session_id,
\*                   timestamp: row.timestamp.toISOString()}))
ExportRecord(row) ==
    [id |-> row.id, name |-> row.name, properties |-> OrEmpty(row.properties),
     sessionId |-> row.session_id, timestamp |-> toISOString(row.timestamp)]

\* ORDER BY timestamp ASC: the orders the rows may be returned in, rows of
\* one timestamp in any order.
OrderByTimestamp(rows) ==
    {q \in SeqsUpTo(rows, Cardinality(rows)) :
        /\ Len(q) = Cardinality(rows)
        /\ \A j, k \in 1..Len(q) : j < k => q[j] # q[k] /\ q[j].timestamp <= q[k].timestamp}

\* SELECT id, name, properties, session_id, timestamp FROM events
\* WHERE user_id = $1 ORDER BY timestamp ASC, mapped to the export's events:
\* the answers the query may give.
exportUserData(table, userId) ==
    {[k \in 1..Len(q) |-> ExportRecord(q[k])] :
        q \in OrderByTimestamp({e \in table : e.user_id = userId})}

\* GET /api/privacy/users/:userId/export: await exportUserData(userId)
\* returns; no events is answered 404, else the data.
ExportQuery ==
    /\ exported.pc \in {"idle", "done"}
    /\ \E userId \in UserIds : \E data \in exportUserData(events, userId) :
        exported' = [pc |-> "done", userId |-> userId,
                     status |-> IF Len(data) = 0 THEN 404 ELSE 200,
                     events |-> data]
    /\ UNCHANGED <<events, nextId, sessions, now, req, hist, funnel, cohort, overTime, client, scan>>
    /\ UNCHANGED rollups

\* The export's query throws: next(error), answered 500.
ExportFail ==
    /\ exported.pc \in {"idle", "done"}
    /\ \E userId \in UserIds :
        exported' = [pc |-> "done", userId |-> userId, status |-> 500, events |-> <<>>]
    /\ UNCHANGED <<events, nextId, sessions, now, req, hist, funnel, cohort, overTime, client, scan>>
    /\ UNCHANGED rollups

\* The batch body made of exported records: each record's name, properties,
\* sessionId and timestamp, the fields of eventSchema it carries.
ReingestBody(records) ==
    [k \in 1..Len(records) |->
        [Input(records[k].name, records[k].sessionId, NULL, records[k].timestamp)
            EXCEPT !.properties = records[k].properties]]

\* The exported records are posted to POST /api/events/batch, as exported
\* (with their id) or as bodies of eventSchema's fields.
Reingest ==
    /\ exported.pc = "done" /\ exported.status = 200
    /\ \E body \in {exported.events, ReingestBody(exported.events)} :
        BatchAccept(1, body)
    /\ exported' = [exported EXCEPT !.pc = "sent"]
    /\ UNCHANGED <<funnel, cohort, overTime, client, scan>>
    /\ UNCHANGED rollups

\* Ingestion beside the export.
ExportIngest ==
    /\ \E input \in ExportInputs : IngestUpTo(input, MaxExportEvents)
    /\ UNCHANGED readSide

(* -------------------------- the browser client ----------------------- *)

\* The client's clock counts minutes and stops at MaxClientTime; the client
\* generates at most MaxClientSessions session ids.
MaxClientTime == 45
MaxClientSessions == 3

\* private _sessionTimeout = 30 * 60 * 1000, in minutes.
DefaultSessionTimeout == 30
\* An options.sessionTimeout, in minutes.
CustomSessionTimeout == 10
\* The minutes that pass between two calls.
ClientWaits == {10, 20, 31}

\* _sessionId null; _lastActivity null; nothing sent.
NoSession == 0
NoActivity == -1
\* An options.sessionId.
ProvidedSessionId == 100

\* localStorage without a session and without a user id.
NoStoredSession == [id |-> NoSession, lastActivity |-> NoActivity, userId |-> NULL]

\* The last call of the client's API: its name, _initialized when it sent
\* its request (when it returned, if it sent none), the requests it sent,
\* whether it gave its callback an Error.
NoCall == [name |-> "none", initialized |-> FALSE, requests |-> 0, error |-> FALSE]

Call(name, initialized, requests, error) ==
    [name |-> name, initialized |-> initialized, requests |-> requests, error |-> error]

\* The event last sent, with the _sessionId and _lastActivity track found.
NothingSent ==
    [sessionId |-> NoSession, at |-> NoActivity, prevSessionId |-> NoSession,
     prevActivity |-> NoActivity, sessionTimeout |-> DefaultSessionTimeout]

\* new UltralyticsClient() on a page whose localStorage holds stored, at
\* time t, generated session ids so far.
ClientAt(stored, t, generated) ==
    [now |-> t, initialized |-> FALSE, sessionId |-> NoSession, userId |-> NULL,
     lastActivity |-> NoActivity, sessionTimeout |-> DefaultSessionTimeout,
     stored |-> stored, generated |-> generated, sent |-> NothingSent,
     call |-> NoCall]

NewClient(stored) == ClientAt(stored, 1, 0)

\* _generateId(): a session id never generated before.
generateId(c) == c.generated + 1

\* _storeSession()
storeSession(c) ==
    [c EXCEPT !.stored.id = c.sessionId, !.stored.lastActivity = c.lastActivity]

\* _initSession(providedSessionId); a stored lastActivity of null counts as
\* 0 in Date.now() - stored.lastActivity, which is then no less than the
\* timeout.
initSession(c, providedSessionId) ==
    IF providedSessionId # NoSession
    THEN storeSession([c EXCEPT !.sessionId = providedSessionId])
    ELSE IF c.stored.id # NoSession
            /\ c.stored.lastActivity # NoActivity
            /\ c.now - c.stored.lastActivity < c.sessionTimeout
    THEN storeSession([c EXCEPT !.sessionId = c.stored.id,
                                !.lastActivity = c.stored.lastActivity])
    ELSE storeSession([c EXCEPT !.sessionId = generateId(c),
                                !.generated = generateId(c)])

\* _checkSession()
checkSession(c) ==
    LET expired == c.lastActivity = NoActivity
                   \/ c.now - c.lastActivity > c.sessionTimeout
        d == IF expired
             THEN [c EXCEPT !.sessionId = generateId(c), !.generated = generateId(c)]
             ELSE c
    IN storeSession([d EXCEPT !.lastActivity = c.now])

\* track(name, properties) of an initialized client: a session id is
\* generated if there is none, _lastActivity is set, the event is sent.
track(c) ==
    LET d == IF c.sessionId = NoSession
             THEN storeSession([c EXCEPT !.sessionId = generateId(c),
                                         !.generated = generateId(c)])
             ELSE c
        e == storeSession([d EXCEPT !.lastActivity = c.now])
    IN [e EXCEPT !.sent = [sessionId |-> e.sessionId, at |-> c.now,
                           prevSessionId |-> c.sessionId,
                           prevActivity |-> c.lastActivity,
                           sessionTimeout |-> c.sessionTimeout]]

\* Calls that may generate a session id are taken while ids are left.
IdsLeft == client.generated < MaxClientSessions

ClientStep(c) ==
    /\ client' = c
    /\ UNCHANGED <<events, nextId, sessions, now, req, hist, funnel, cohort, overTime,
                   exported, scan>>
    /\ UNCHANGED rollups

\* init(options): without an endpoint, or with Do Not Track on, it returns
\* at once; else options.sessionTimeout and options.sessionId are given or
\* not, the stored user id is restored, and with autoTrack the initial page
\* view is tracked.
init(c, endpoint, doNotTrack, timeout, providedSessionId, autoTrack) ==
    IF ~endpoint \/ doNotTrack
    THEN [c EXCEPT !.call = Call("init", c.initialized, 0, FALSE)]
    ELSE LET d == initSession([c EXCEPT !.lastActivity = c.now,
                                        !.sessionTimeout = timeout],
                              providedSessionId)
             e == [d EXCEPT !.initialized = TRUE,
                            !.userId = IF d.stored.userId # NULL
                                       THEN d.stored.userId ELSE d.userId]
         IN IF autoTrack
            THEN [track(e) EXCEPT !.call = Call("init", TRUE, 1, FALSE)]
            ELSE [e EXCEPT !.call = Call("init", TRUE, 0, FALSE)]

\* A mutant of trackCall: track without the check of _initialized.
trackCallUnchecked(c) ==
    [track(c) EXCEPT !.call = Call("track", c.initialized, 1, FALSE)]

\* track(name, properties): without init() it logs an error and returns.
trackCall(c) ==
    IF ~c.initialized
    THEN [c EXCEPT !.call = Call("track", FALSE, 0, FALSE)]
    ELSE [track(c) EXCEPT !.call = Call("track", TRUE, 1, FALSE)]

\* trackBatch(events, callback) of count events: not initialized, or with
\* no event, the callback is given an Error; else _lastActivity is set, the
\* session stored and the batch sent.
trackBatch(c, count) ==
    IF ~c.initialized
    THEN [c EXCEPT !.call = Call("trackBatch", FALSE, 0, TRUE)]
    ELSE IF count = 0
    THEN [c EXCEPT !.call = Call("trackBatchEmpty", TRUE, 0, TRUE)]
    ELSE [storeSession([c EXCEPT !.lastActivity = c.now])
            EXCEPT !.call = Call("trackBatch", TRUE, 1, FALSE)]

\* identify(userId, traits): not initialized, or without a user id, it
\* returns; else the user id is set and stored, and with traits an identify
\* event is tracked.
identify(c, userId, traits) ==
    IF ~c.initialized \/ userId = NULL
    THEN [c EXCEPT !.call = Call("identify", c.initialized, 0, FALSE)]
    ELSE LET d == [c EXCEPT !.userId = userId, !.stored.userId = userId]
         IN IF traits
            THEN [track(d) EXCEPT !.call = Call("identify", TRUE, 1, FALSE)]
            ELSE [d EXCEPT !.call = Call("identify", TRUE, 0, FALSE)]

ClientInit ==
    /\ IdsLeft
    /\ \E endpoint \in BOOLEAN, doNotTrack \in BOOLEAN,
          timeout \in {DefaultSessionTimeout, CustomSessionTimeout},
          providedSessionId \in {NoSession, ProvidedSessionId},
          autoTrack \in BOOLEAN :
        ClientStep(init(client, endpoint, doNotTrack, timeout, providedSessionId,
                        autoTrack))

ClientTrack ==
    /\ IdsLeft
    /\ ClientStep(trackCall(client))

ClientTrackBatch ==
    /\ \E count \in {0, 2} : ClientStep(trackBatch(client, count))

ClientIdentify ==
    /\ IdsLeft
    /\ \E userId \in UserIds \cup {NULL}, traits \in BOOLEAN :
        ClientStep(identify(client, userId, traits))

\* visibilitychange to visible, the handler init() bound: _checkSession().
ClientVisible ==
    /\ client.initialized
    /\ IdsLeft
    /\ ClientStep([checkSession(client) EXCEPT !.call = NoCall])

\* beforeunload, the handler init() bound: _lastActivity = Date.now().
ClientBeforeUnload ==
    /\ client.initialized
    /\ ClientStep([client EXCEPT !.lastActivity = client.now, !.call = NoCall])

\* reset(): a new session id, stored with the _lastActivity there is; the
\* user id is forgotten.
ClientReset ==
    /\ IdsLeft
    /\ ClientStep(storeSession([client EXCEPT !.sessionId = generateId(client),
                                              !.generated = generateId(client),
                                              !.userId = NULL, !.stored.userId = NULL,
                                              !.call = Call("reset", client.initialized,
                                                            0, FALSE)]))

\* destroy(): nothing if not initialized.
ClientDestroy ==
    /\ client.initialized
    /\ ClientStep([client EXCEPT !.initialized = FALSE, !.sessionId = NoSession,
                                 !.userId = NULL,
                                 !.call = Call("destroy", FALSE, 0, FALSE)])

\* The page is loaded anew: a new client, localStorage kept.
ClientLoad ==
    /\ client' = ClientAt(client.stored, client.now, client.generated)
    /\ UNCHANGED <<events, nextId, sessions, now, req, hist, funnel, cohort, overTime,
                   exported, scan>>
    /\ UNCHANGED rollups

\* Minutes pass in the browser.
ClientWait ==
    \E d \in ClientWaits :
        /\ client.now + d <= MaxClientTime
        /\ ClientStep([client EXCEPT !.now = client.now + d])

(* ----------------------------- event scans --------------------------- *)

\* Math.min(limit, 1000) of GET /api/events, its default limit, and the
\* default and the greatest limit of GET /api/export.
HardCap == 1000
DefaultLimit == 100
ExportDefaultLimit == 10000
ExportMaxLimit == 100000

\* No limit in the query string.
NoLimit == -1

\* The limit a caller asks for, and the rows the WHERE clause selects.
ScanLimits == {NoLimit, 0, 1, HardCap, HardCap + 1, 2 * ExportMaxLimit}
ScanMatching == {0, 1, HardCap, HardCap + 1, ExportMaxLimit, ExportMaxLimit + 1}
ScanOffsets == {0, 1}

\* No read request yet.
IdleScan == [kind |-> "idle", status |-> 0, params |-> <<>>, data |-> <<>>]

Min(a, b) == IF a <= b THEN a ELSE b

\* The number of rows of matching selected rows that LIMIT limit OFFSET
\* offset returns; without a LIMIT clause, all after the offset.
LimitOffset(matching, limit, offset) ==
    LET rest == IF matching > offset THEN matching - offset ELSE 0
    IN IF limit = NoLimit THEN rest ELSE Min(rest, limit)

\* GET /api/events: limit = req.query.limit ? parseInt(req.query.limit) : 100;
\* LIMIT Math.min(limit, 1000) OFFSET offset
EventQueryCount(matching, limit, offset) ==
    LimitOffset(matching, Min(IF limit = NoLimit THEN DefaultLimit ELSE limit, HardCap),
                offset)

\* getEventsForReplay: if (options.limit) LIMIT options.limit, the route
\* passing limit ? parseInt(limit) : undefined.
ReplayEventsCount(matching, limit) ==
    LimitOffset(matching, IF limit = NoLimit \/ limit = 0 THEN NoLimit ELSE limit, 0)

\* GET /api/export: LIMIT Math.min(parseInt(req.query.limit) || 10000, 100000)
ExportCount(matching, limit) ==
    LimitOffset(matching,
                Min(IF limit = NoLimit \/ limit = 0 THEN ExportDefaultLimit ELSE limit,
                    ExportMaxLimit), 0)

\* What a read request leaves alone.
scanFrame ==
    <<events, nextId, sessions, now, req, hist, funnel, cohort, overTime, exported,
      client, migrated, daily_event_stats, hourly_event_stats, refresh, cleanup>>

\* GET /api/events on a table whose rows selected by the filters are
\* matching many: the query returns, the rows are sent.
EventQuery ==
    \E matching \in ScanMatching, limit \in ScanLimits, offset \in ScanOffsets :
        /\ scan' = [kind |-> "events", status |-> 200,
                     params |-> [matching |-> matching, limit |-> limit, offset |-> offset],
                     data |-> EventQueryCount(matching, limit, offset)]
        /\ UNCHANGED scanFrame

\* GET /api/replay/events with startDate and endDate.
ReplayEvents ==
    \E matching \in ScanMatching, limit \in ScanLimits :
        /\ scan' = [kind |-> "replay", status |-> 200,
                     params |-> [matching |-> matching, limit |-> limit, offset |-> 0],
                     data |-> ReplayEventsCount(matching, limit)]
        /\ UNCHANGED scanFrame

\* GET /api/export
ExportEvents ==
    \E matching \in ScanMatching, limit \in ScanLimits :
        /\ scan' = [kind |-> "export", status |-> 200,
                     params |-> [matching |-> matching, limit |-> limit, offset |-> 0],
                     data |-> ExportCount(matching, limit)]
        /\ UNCHANGED scanFrame

\* The query of a scan throws: next(error), answered 500.
ScanFail ==
    \E kind \in {"events", "replay", "export"} :
        /\ scan' = [kind |-> kind, status |-> 500, params |-> <<>>, data |-> 0]
        /\ UNCHANGED scanFrame

(* ------------------------- replay and event list ---------------------- *)

\* Events in the table of the replay runs.
MaxReplayEvents == 3

\* The events the replay runs ingest: of session s1 or none, stamped by the
\* server or by the client with one of two instants.
ReplayInputs ==
    {Input("signup", sid, NULL, t) :
        sid \in {"s1", NULL},
        t \in {NoTimestamp, toISOString(1), toISOString(HourLen + 1)}}

\* The sequence in the opposite order.
Reverse(q) == [k \in 1..Len(q) |-> q[Len(q) + 1 - k]]

\* ORDER BY timestamp DESC: the orders the rows may be returned in.
OrderByTimestampDesc(rows) == {Reverse(q) : q \in OrderByTimestamp(rows)}

\* LIMIT limit OFFSET offset of an ordered result.
LimitRows(q, limit, offset) ==
    SubSeq(q, offset + 1, offset + LimitOffset(Len(q), limit, offset))

\* A mutant of ReplayEvent: the time since the event before.
ReplayEventSincePrevious(q, k) ==
    [id |-> q[k].id, name |-> q[k].name, properties |-> OrEmpty(q[k].properties),
     sessionId |-> q[k].session_id, userId |-> q[k].user_id,
     timestamp |-> q[k].timestamp,
     relativeTimeMs |-> q[k].timestamp - q[IF k = 1 THEN 1 ELSE k - 1].timestamp]

\* events.map(row => ({id, name, properties: row.properties || {}, sessionId,
\*   userId, timestamp, relativeTimeMs: timestamp - firstTimestamp})), k-th row
ReplayEvent(q, k) ==
    [id |-> q[k].id, name |-> q[k].name, properties |-> OrEmpty(q[k].properties),
     sessionId |-> q[k].session_id, userId |-> q[k].user_id,
     timestamp |-> q[k].timestamp,
     relativeTimeMs |-> q[k].timestamp - q[1].timestamp]

\* getSessionReplay(sessionId) of the ordered rows q, not empty.
ReplaySession(sessionId, q) ==
    [sessionId |-> sessionId, startTime |-> q[1].timestamp,
     endTime |-> q[Len(q)].timestamp, eventCount |-> Len(q),
     durationMs |-> q[Len(q)].timestamp - q[1].timestamp,
     events |-> [k \in 1..Len(q) |-> ReplayEvent(q, k)]]

\* GET /api/replay/sessions/:sessionId: SELECT ... WHERE session_id = $1
\* ORDER BY timestamp ASC returns; no row is answered 404 (NotFoundError).
SessionReplay ==
    \E sessionId \in SessionIds :
      \E q \in OrderByTimestamp({e \in events : e.session_id = sessionId}) :
        /\ scan' = IF q = <<>>
                   THEN [kind |-> "session", status |-> 404,
                         params |-> [sessionId |-> sessionId, nextId |-> nextId],
                         data |-> <<>>]
                   ELSE [kind |-> "session", status |-> 200,
                         params |-> [sessionId |-> sessionId, nextId |-> nextId],
                         data |-> ReplaySession(sessionId, q)]
        /\ UNCHANGED scanFrame

\* GET /api/events with or without a sessionId filter: SELECT * FROM events
\* WHERE ... ORDER BY timestamp DESC LIMIT Math.min(limit, 1000) OFFSET offset
EventList ==
    \E sessionId \in SessionIds \cup {NULL}, limit \in {NoLimit, 1}, offset \in ScanOffsets :
      \E q \in OrderByTimestampDesc({e \in events :
                    sessionId # NULL => e.session_id = sessionId}) :
        /\ scan' = [kind |-> "list", status |-> 200,
                    params |-> [sessionId |-> sessionId, limit |-> limit,
                                offset |-> offset, nextId |-> nextId],
                    data |-> LimitRows(q, Min(IF limit = NoLimit THEN DefaultLimit
                                              ELSE limit, HardCap), offset)]
        /\ UNCHANGED scanFrame

\* The query of a replay or of a list throws: answered 500.
ReplayFail ==
    \E kind \in {"session", "list"} :
        /\ scan' = [kind |-> kind, status |-> 500, params |-> <<>>, data |-> <<>>]
        /\ UNCHANGED scanFrame

\* Ingestion beside the replays.
ReplayIngest ==
    /\ \E input \in ReplayInputs : IngestUpTo(input, MaxReplayEvents)
    /\ UNCHANGED readSide

(* ------------------------------ timeline ------------------------------ *)

\* Events in the table of the timeline runs.
MaxTimelineEvents == 3

\* Names of Object.prototype's properties, which every {} has: event names
\* too, by eventSchema's pattern.
InheritedNames == {"constructor"}
TimelineNames == {"signup"} \cup InheritedNames

\* What (types[name] || 0) + 1 is when types[name] is not a number: a string
\* ("function Object() { [native code] }1"), written here as no count.
NotANumber == -1

\* The events the timeline runs ingest, client-stamped.
TimelineInputs ==
    {Input(n, NULL, NULL, toISOString(t)) : n \in TimelineNames, t \in {1, 2, 5}}

\* The windows and bucket sizes asked for.
TimelineQueries ==
    [startDate : {0, 1}, endDate : {4, 5}, bucketSizeMs : {2, 3}]

\* Math.floor((eventTime - startTime) / bucketSizeMs)
BucketIndex(t, startTime, bucketSizeMs) == (t - startTime) \div bucketSizeMs

\* The keys of buckets in insertion order, after the rows q.
RECURSIVE BucketKeys(_, _, _)
BucketKeys(q, startTime, bucketSizeMs) ==
    IF q = <<>> THEN <<>>
    ELSE SetAdd(BucketKeys(SubSeq(q, 1, Len(q) - 1), startTime, bucketSizeMs),
                BucketIndex(q[Len(q)].timestamp, startTime, bucketSizeMs))

\* bucket.types[name] after the rows of the bucket: each row does
\* types[name] = (types[name] || 0) + 1, types being {} at first.
TypeCount(rows, name) ==
    IF name \in InheritedNames THEN NotANumber
    ELSE Cardinality({e \in rows : e.name = name})

\* The bucket of key index: {bucketStart, bucketEnd, eventCount: data.count,
\* eventTypes: data.types}
TimelineBucket(rows, index, startTime, bucketSizeMs) ==
    LET mine == {e \in rows : BucketIndex(e.timestamp, startTime, bucketSizeMs) = index}
    IN [bucketStart |-> startTime + index * bucketSizeMs,
        bucketEnd |-> startTime + (index + 1) * bucketSizeMs,
        eventCount |-> Cardinality(mine),
        eventTypes |-> [n \in {e.name : e \in mine} |-> TypeCount(mine, n)]]

\* getEventTimeline(startDate, endDate, bucketSizeMs) of the ordered rows q.
getEventTimeline(q, startTime, bucketSizeMs) ==
    LET keys == BucketKeys(q, startTime, bucketSizeMs)
        rows == {q[k] : k \in 1..Len(q)}
    IN [k \in 1..Len(keys) |-> TimelineBucket(rows, keys[k], startTime, bucketSizeMs)]

\* GET /api/replay/timeline with startDate, endDate and a bucket size:
\* SELECT name, timestamp FROM events WHERE timestamp >= $1 AND
\* timestamp <= $2 ORDER BY timestamp ASC returns, the buckets are sent.
Timeline ==
    \E t \in TimelineQueries :
      \E q \in OrderByTimestamp({e \in events :
                    e.timestamp >= t.startDate /\ e.timestamp <= t.endDate}) :
        /\ scan' = [kind |-> "timeline", status |-> 200,
                    params |-> [startDate |-> t.startDate, endDate |-> t.endDate,
                                bucketSizeMs |-> t.bucketSizeMs, nextId |-> nextId],
                    data |-> getEventTimeline(q, t.startDate, t.bucketSizeMs)]
        /\ UNCHANGED scanFrame

\* The timeline's query throws: answered 500.
TimelineFail ==
    /\ scan' = [kind |-> "timeline", status |-> 500, params |-> <<>>, data |-> <<>>]
    /\ UNCHANGED scanFrame

\* Ingestion beside the timeline.
TimelineIngest ==
    /\ \E input \in TimelineInputs : IngestUpTo(input, MaxTimelineEvents)
    /\ UNCHANGED readSide

(* ----------------------------- anonymization -------------------------- *)

\* Events in the table of the privacy runs.
MaxPrivacyEvents == 3

\* The events the privacy runs ingest: of user u1 or of nobody, of session
\* s1 or none, with an email among the properties or without properties.
PrivacyInputs ==
    {[Input("signup", sid, u, NoTimestamp) EXCEPT !.properties = p] :
        sid \in {"s1", NULL}, u \in UserIds \cup {NULL}, p \in {NULL, "{email:a@b.c}"}}

\* 'anon_' || md5($1)
AnonymousId(userId) == "anon_md5_" \o userId

\* jsonb_set(jsonb_set(properties, '{email}', '"[REDACTED]"', false),
\*           '{ip}', '"[REDACTED]"', false): a key there is is overwritten,
\* none is created.
Redact(properties) ==
    IF properties = "{email:a@b.c}" THEN "{email:[REDACTED]}" ELSE properties

\* UPDATE events SET user_id = 'anon_' || md5($1), properties = ...
\* WHERE user_id = $1
anonymizeUserEvents(table, userId) ==
    {IF e.user_id = userId
     THEN [e EXCEPT !.user_id = AnonymousId(userId), !.properties = Redact(e.properties)]
     ELSE e : e \in table}

\* UPDATE events SET user_id = NULL WHERE session_id = $1
anonymizeSession(table, sessionId) ==
    {IF e.session_id = sessionId THEN [e EXCEPT !.user_id = NULL] ELSE e : e \in table}

\* POST /api/privacy/users/:userId/anonymize: anonymizeUserEvents runs (with
\* no row updated the answer is 404 and nothing changes).
AnonymizeUser ==
    /\ \E userId \in UserIds :
        /\ \E e \in events : e.user_id = userId
        /\ events' = anonymizeUserEvents(events, userId)
    /\ UNCHANGED <<nextId, sessions, now, req, hist>>
    /\ UNCHANGED readSide

\* anonymizeSession(sessionId) runs.
AnonymizeSession ==
    /\ \E sessionId \in SessionIds :
        /\ \E e \in events : e.session_id = sessionId
        /\ events' = anonymizeSession(events, sessionId)
    /\ UNCHANGED <<nextId, sessions, now, req, hist>>
    /\ UNCHANGED readSide

\* Ingestion beside the privacy operations.
PrivacyIngest ==
    /\ \E input \in PrivacyInputs : IngestUpTo(input, MaxPrivacyEvents)
    /\ UNCHANGED readSide

(* -------------------------- dashboard summary ------------------------- *)

\* The events the summary runs ingest: session s1 of user u1 with two event
\* names and on two days, and an event of no session and no user.
SummaryInputs ==
    {Input("signup", "s1", "u1", toISOString(1)),
     Input("purchase", "s1", "u1", toISOString(1)),
     Input("signup", "s1", "u1", toISOString(DayLen + 1)),
     Input("signup", NULL, NULL, toISOString(1))}

\* The windows asked for: the first day, the second, both.
SummaryWindows ==
    {<<0, DayLen - 1>>, <<DayLen, 2 * DayLen - 1>>, <<0, 2 * DayLen - 1>>}

\* SELECT SUM(event_count), SUM(unique_sessions), SUM(unique_users)
\* FROM daily_event_stats WHERE day >= $1 AND day <= $2
SummaryFromView(start, end) ==
    LET rows == {r \in daily_event_stats : r.day >= start /\ r.day <= end}
    IN [totalEvents |-> SumField(rows, "event_count"),
        uniqueSessions |-> SumField(rows, "unique_sessions"),
        uniqueUsers |-> SumField(rows, "unique_users")]

\* The rows of the fallback's queries: WHERE timestamp >= $1 AND timestamp <= $2
SummaryRows(start, end) == {e \in events : e.timestamp >= start /\ e.timestamp <= end}

\* SELECT COUNT(*) FROM events WHERE ...
RawTotalEvents(start, end) == Cardinality(SummaryRows(start, end))

\* SELECT COUNT(DISTINCT session_id) FROM events WHERE ... AND session_id IS NOT NULL
RawUniqueSessions(start, end) ==
    Cardinality({e.session_id : e \in SummaryRows(start, end)} \ {NULL})

\* SELECT COUNT(DISTINCT user_id) FROM events WHERE ... AND user_id IS NOT NULL
RawUniqueUsers(start, end) ==
    Cardinality({e.user_id : e \in SummaryRows(start, end)} \ {NULL})

\* The summary the fallback gives when its queries see one state of events.
SummaryRaw(start, end) ==
    [totalEvents |-> RawTotalEvents(start, end),
     uniqueSessions |-> RawUniqueSessions(start, end),
     uniqueUsers |-> RawUniqueUsers(start, end)]

NoSummary == [totalEvents |-> 0, uniqueSessions |-> 0, uniqueUsers |-> 0]

\* GET /summary with startDate and endDate:
\* await canUseMaterializedView('daily_event_stats') returns (false too when
\* its query throws).
SummaryCheck ==
    \E w \in SummaryWindows, exists \in {migrated, FALSE} :
        /\ scan' = [kind |-> "summary", status |-> 0,
                    params |-> [start |-> w[1], end |-> w[2],
                                optimized |-> canUseMaterializedView(exists),
                                step |-> "events", fresh |-> FALSE, raw |-> NoSummary],
                    data |-> NoSummary]
        /\ UNCHANGED scanFrame

\* The view's summary query returns (the pageviews and top events queries
\* follow and the answer is sent). fresh: the view holds what a refresh would
\* compute now; raw: what the fallback would count now.
SummaryView ==
    /\ scan.kind = "summary" /\ scan.status = 0 /\ scan.params.optimized
    /\ scan' = [scan EXCEPT !.status = 200,
                    !.params.fresh = (daily_event_stats = DailyRows(events)),
                    !.params.raw = SummaryRaw(scan.params.start, scan.params.end),
                    !.data = SummaryFromView(scan.params.start, scan.params.end)]
    /\ UNCHANGED scanFrame

\* The fallback's COUNT(*) returns.
SummaryEvents ==
    /\ scan.kind = "summary" /\ scan.status = 0 /\ ~scan.params.optimized
    /\ scan.params.step = "events"
    /\ scan' = [scan EXCEPT !.params.step = "sessions",
                    !.data.totalEvents = RawTotalEvents(scan.params.start, scan.params.end)]
    /\ UNCHANGED scanFrame

\* The fallback's COUNT(DISTINCT session_id) returns.
SummarySessions ==
    /\ scan.kind = "summary" /\ scan.status = 0 /\ scan.params.step = "sessions"
    /\ scan' = [scan EXCEPT !.params.step = "users",
                    !.data.uniqueSessions =
                        RawUniqueSessions(scan.params.start, scan.params.end)]
    /\ UNCHANGED scanFrame

\* The fallback's COUNT(DISTINCT user_id) returns (the pageviews and top
\* events queries follow and the answer is sent).
SummaryUsers ==
    /\ scan.kind = "summary" /\ scan.status = 0 /\ scan.params.step = "users"
    /\ scan' = [scan EXCEPT !.status = 200,
                    !.data.uniqueUsers = RawUniqueUsers(scan.params.start, scan.params.end)]
    /\ UNCHANGED scanFrame

\* A query of the summary throws: answered 500.
SummaryFail ==
    /\ scan.kind = "summary" /\ scan.status = 0
    /\ scan' = [scan EXCEPT !.status = 500, !.data = NoSummary]
    /\ UNCHANGED scanFrame

\* Ingestion beside the summary.
SummaryIngest ==
    /\ \E input \in SummaryInputs : IngestOne(input)
    /\ UNCHANGED readSide

(* --------------------------- specifications --------------------------- *)

Init ==
    /\ events = {}
    /\ nextId = 1
    /\ sessions = <<>>
    /\ now = 0
    /\ req = [r \in Slots |-> IdleReq]
    /\ hist = [acked |-> [s \in SessionIds |-> 0], hourlyFrom |-> 0]
    /\ funnel = IdleFunnel
    /\ cohort = IdleCohort
    /\ overTime = IdleOverTime
    /\ exported = IdleExport
    /\ client = NewClient(NoStoredSession)
    /\ scan = IdleScan
    /\ migrated = FALSE
    /\ daily_event_stats = {}
    /\ hourly_event_stats = {}
    /\ refresh = [r \in RefreshSlots |-> IdleRefresh]
    /\ cleanup = [pc |-> "idle", cutoffDate |-> 0]

\* The server under concurrent single-event requests.
Next ==
    \/ \E r \in Slots : SingleReceive(r)
    \/ \E r \in Slots : SingleStore(r)
    \/ \E r \in Slots : StoreFail(r)
    \/ \E r \in Slots : UpsertFail(r)
    \/ \E r \in Slots : UpsertApply(r)
    \/ Tick

Spec == Init /\ [][Next]_vars

\* The server with one request at a time.
NextSeq ==
    \/ SingleReceive(1)
    \/ SingleStore(1)
    \/ BatchReceive(1)
    \/ BatchStore(1)
    \/ StoreFail(1)
    \/ UpsertFail(1)
    \/ UpsertApply(1)
    \/ Tick

SpecSeq == Init /\ [][NextSeq]_vars

\* The server with one single-event request at a time.
NextSingle ==
    \/ SingleReceive(1)
    \/ SingleStore(1)
    \/ StoreFail(1)
    \/ UpsertFail(1)
    \/ UpsertApply(1)
    \/ Tick

SpecSingle == Init /\ [][NextSingle]_vars

\* The funnel analyzer beside ingestion.
NextFunnel ==
    \/ FunnelIngest
    \/ FunnelStart
    \/ FunnelStep
    \/ FunnelFail

SpecFunnel == Init /\ [][NextFunnel]_vars

\* The export of a user's events, and their re-ingestion through the batch
\* endpoint, beside ingestion.
NextExport ==
    \/ ExportIngest
    \/ ExportQuery
    \/ ExportFail
    \/ Reingest
    \/ BatchStore(1)
    \/ StoreFail(1)
    \/ UpsertFail(1)
    \/ UpsertApply(1)
    \/ Tick

SpecExport == Init /\ [][NextExport]_vars

\* The browser client.
NextClient ==
    \/ ClientInit
    \/ ClientTrack
    \/ ClientTrackBatch
    \/ ClientIdentify
    \/ ClientVisible
    \/ ClientBeforeUnload
    \/ ClientReset
    \/ ClientDestroy
    \/ ClientLoad
    \/ ClientWait

SpecClient == Init /\ [][NextClient]_vars

\* The event scans, by the number of rows selected.
NextScan ==
    \/ EventQuery
    \/ ReplayEvents
    \/ ExportEvents
    \/ ScanFail

SpecScan == Init /\ [][NextScan]_vars

\* Session replay and the event list beside ingestion.
NextReplay ==
    \/ ReplayIngest
    \/ SessionReplay
    \/ EventList
    \/ ReplayFail
    \/ Tick

SpecReplay == Init /\ [][NextReplay]_vars

\* The timeline beside ingestion.
NextTimeline ==
    \/ TimelineIngest
    \/ Timeline
    \/ TimelineFail

SpecTimeline == Init /\ [][NextTimeline]_vars

\* The privacy operations beside ingestion and a session replay.
NextPrivacy ==
    \/ PrivacyIngest
    \/ AnonymizeUser
    \/ AnonymizeSession
    \/ DeleteUser
    \/ SessionReplay
    \/ Tick

SpecPrivacy == Init /\ [][NextPrivacy]_vars

\* The dashboard summary beside ingestion, the migration and one refresh
\* at a time.
NextSummary ==
    \/ SummaryIngest
    \/ Migrate
    \/ RefreshStart(1)
    \/ RefreshDaily(1)
    \/ RefreshHourly(1)
    \/ RefreshFail(1)
    \/ SummaryCheck
    \/ SummaryView
    \/ SummaryEvents
    \/ SummarySessions
    \/ SummaryUsers
    \/ SummaryFail

SpecSummary == Init /\ [][NextSummary]_vars

\* The cohort analyzer beside ingestion.
NextCohort ==
    \/ CohortIngest
    \/ CohortStart
    \/ CohortSizes
    \/ CohortPeriod
    \/ CohortFail

SpecCohort == Init /\ [][NextCohort]_vars

\* The rollups beside ingestion, cleanup and user-data deletion.
NextRollup ==
    \/ RollupIngest
    \/ Migrate
    \/ \E r \in RefreshSlots : RefreshStart(r)
    \/ \E r \in RefreshSlots : RefreshDaily(r)
    \/ \E r \in RefreshSlots : RefreshHourly(r)
    \/ \E r \in RefreshSlots : RefreshFail(r)
    \/ CleanupEvents
    \/ CleanupSessions
    \/ DeleteUser
    \/ Advance

SpecRollup == Init /\ [][NextRollup]_vars

\* The events-over-time read path beside ingestion, the migration and one
\* refresh at a time.
NextServe ==
    \/ RollupIngest
    \/ Migrate
    \/ Advance
    \/ RefreshStart(1)
    \/ RefreshDaily(1)
    \/ RefreshHourly(1)
    \/ RefreshFail(1)
    \/ OverTimeStart
    \/ OverTimeCheck
    \/ OverTimeQuery
    \/ OverTimeFail

SpecServe == Init /\ [][NextServe]_vars

(* ------------------------------ claims -------------------------------- *)

\* The query windows that cover whole days: for them the buckets the
\* materialized-view query selects are the days of the window.
DayWindows ==
    {<<0, DayLen - 1>>, <<DayLen, 2 * DayLen - 1>>, <<0, 2 * DayLen - 1>>}

\* C4: in every reachable state, for a query window, the rollup's event
\* counts over the window's buckets add up to at most the number of stored
\* events in the window.
C4_RollupNeverOvercounts ==
    migrated => \A w \in DayWindows : RollupTotal(w[1], w[2]) <= RawTotal(w[1], w[2])

\* C6: at most one refresh execution is in progress at any time.
C6_RefreshSingleFlight ==
    Cardinality({r \in RefreshSlots : refresh[r].pc \in {"called", "hourly"}}) <= 1

\* The timestamps at which session sid performed step i of the funnel inside
\* the window after it qualified for the steps before: empty, or the earliest.
RECURSIVE QualifyingTime(_, _, _, _, _)
QualifyingTime(sid, steps, i, startDate, endDate) ==
    IF i = 0 THEN {NoTimestamp}
    ELSE LET before == QualifyingTime(sid, steps, i - 1, startDate, endDate)
             after == {e.timestamp : e \in
                        {x \in events : /\ x.session_id = sid
                                        /\ x.name = steps[i]
                                        /\ x.timestamp >= startDate
                                        /\ x.timestamp <= endDate
                                        /\ \A b \in before : x.timestamp > b}}
         IN IF before = {} \/ after = {} THEN {}
            ELSE {CHOOSE t \in after : \A u \in after : t <= u}

Qualified(steps, i, startDate, endDate) ==
    {sid \in SessionIds : QualifyingTime(sid, steps, i, startDate, endDate) # {}}

\* C1: a funnel answer counts toward step i > 1 only sessions that performed
\* steps 1..i in order inside the window (every such session does have a
\* step-i event in the window, so the count is at most their number exactly
\* when nothing else is counted).
C1_FunnelOrdered ==
    (funnel.pc = "done" /\ funnel.status = 200)
    => \A i \in 2..Len(funnel.steps) :
          funnel.stepResults[i].count
            <= Cardinality(Qualified(funnel.steps, i, funnel.startDate, funnel.endDate))

\* C2: the counts of a funnel answer never increase down the funnel.
C2_FunnelMonotone ==
    (funnel.pc = "done" /\ funnel.status = 200)
    => \A i \in 2..Len(funnel.steps) :
          funnel.stepResults[i].count <= funnel.stepResults[i - 1].count

EventCount(s) == IF s \in DOMAIN sessions THEN sessions[s].event_count ELSE 0

BodySessions(body) == {body[k].sessionId : k \in 1..Len(body)} \ {NULL}

\* What a batch answer tells the caller: the inputs reported stored, and the
\* inputs reported failed (an error answer stands for the whole batch).
ReportedStored(r) == Len(req[r].eventIds)
ReportedFailed(r) == IF req[r].status = 201 THEN 0 ELSE Len(req[r].body)

\* C3: a schema-valid batch of N events is answered with exactly which inputs
\* were stored and which failed: the two lists add up to N and the inputs
\* reported stored are the rows the request inserted, also when the store
\* fails part-way.
C3_BatchReportsEveryInput ==
    \A r \in Slots :
        (req[r].kind = "batch" /\ req[r].pc = "done"
            /\ validateBatchEventData(req[r].body))
        => /\ ReportedStored(r) + ReportedFailed(r) = Len(req[r].body)
           /\ req[r].eventIds = req[r].results

\* C5: concurrent upserts of one session id lose no increment: the row's
\* event_count is the number of updateSession calls that returned for the id
\* (each acknowledged single-event request with the id made one), and there
\* is a row exactly when there was a call.
C5_UpsertAtomic ==
    \A s \in SessionIds :
        /\ EventCount(s) = hist.acked[s]
        /\ (s \in DOMAIN sessions) <=> (hist.acked[s] > 0)

\* Two calls for a new session id overlapped (the one that started first
\* wrote last) and both increments are in the row.
C5_Witness ==
    \E s \in DOMAIN sessions :
        /\ sessions[s].event_count = 2
        /\ sessions[s].last_activity_at < sessions[s].started_at

\* C7: a batch answered 201 called updateSession once per distinct session
\* id of its events, and not at all for events without one.
C7_OneUpsertPerSession ==
    \A r \in Slots :
        (req[r].kind = "batch" /\ req[r].pc = "done" /\ req[r].status = 201)
        => req[r].upserts = Cardinality(BodySessions(req[r].body))

\* A batch of two events of one session, answered 201 after one upsert.
C7_Witness ==
    \E r \in Slots :
        /\ req[r].kind = "batch" /\ req[r].pc = "done" /\ req[r].status = 201
        /\ Len(req[r].body) = 2 /\ req[r].upserts = 1
        /\ req[r].body[1].sessionId = req[r].body[2].sessionId

\* C8: once every request is answered, each session's event_count is the
\* number of ingested events that carry its id.
C8_CountIsEventsIngested ==
    (\A r \in Slots : Free(r))
    => \A s \in SessionIds : EventCount(s) = hist.acked[s]

\* The row counts the requests answered for its id, and after an answer it
\* carries the time at which that request's upsert was processed.
C9_Counted ==
    \A s \in SessionIds :
        /\ EventCount(s) = hist.acked[s]
        /\ (req[1].pc = "done" /\ req[1].status = 201 /\ req[1].body[1].sessionId = s)
           => sessions[s].last_activity_at = req[1].stmtNow

\* A row stays, with the started_at it has.
C9_StartedAtKept ==
    \A s \in DOMAIN sessions :
        s \in DOMAIN sessions' /\ sessions'[s].started_at = sessions[s].started_at

\* C9: after n single-event requests for one session, sent one after the
\* other, event_count is n and last_activity_at is the time the last one was
\* processed; started_at never changes once set.
C9_SequentialSession == [](C9_Counted) /\ [][C9_StartedAtKept]_vars

\* MaxEvents events of one session were sent, the clock moving meanwhile.
C9_Witness ==
    \E s \in DOMAIN sessions :
        /\ hist.acked[s] = MaxEvents
        /\ sessions[s].event_count = MaxEvents
        /\ sessions[s].last_activity_at > sessions[s].started_at
        /\ Free(1)

\* C10: every session row has last_activity_at >= started_at.
C10_LastActivityAfterStart ==
    \A s \in DOMAIN sessions : sessions[s].last_activity_at >= sessions[s].started_at

\* A request body that fails shape validation: an event without a name, or
\* a batch with no event.
ShapeInvalid(body) == body = <<>> \/ \E k \in 1..Len(body) : body[k].name = ""

\* A request with such a body is answered 400 at once, having stored nothing.
C11_Rejected ==
    \A r \in Slots :
        (req[r].kind # "idle" /\ ShapeInvalid(req[r].body))
        => /\ req[r].pc = "done" /\ req[r].status = 400
           /\ req[r].results = <<>> /\ req[r].upserts = 0

\* The step that takes such a request writes to neither table.
C11_NoWrite ==
    (\E r \in Slots : req'[r] # req[r] /\ ShapeInvalid(req'[r].body))
    => (events' = events /\ nextId' = nextId /\ sessions' = sessions)

\* C11: a single event that fails shape validation, an empty batch and a
\* batch with one invalid event are answered 400, and no event is inserted
\* and no session upserted for them.
C11_ValidationShortCircuits == [](C11_Rejected) /\ [][C11_NoWrite]_vars

\* A batch whose second event alone is invalid was rejected while the tables
\* hold earlier data.
C11_Witness ==
    /\ req[1].kind = "batch" /\ req[1].pc = "done" /\ req[1].status = 400
    /\ Len(req[1].body) = 2
    /\ req[1].body[1].name # "" /\ req[1].body[2].name = ""
    /\ events # {} /\ DOMAIN sessions # {}

\* The answer of request r lists, in the order of the inputs, the ids under
\* which the inputs were stored.
IdsAligned(r) ==
    /\ Len(req[r].eventIds) = Len(req[r].body)
    /\ \A i \in 1..Len(req[r].body) :
        \E e \in events : /\ e.id = req[r].eventIds[i]
                          /\ e.name = req[r].body[i].name
                          /\ e.session_id = req[r].body[i].sessionId
    /\ \A i, k \in 1..Len(req[r].eventIds) :
        i # k => req[r].eventIds[i] # req[r].eventIds[k]

\* C12: a schema-valid batch of N events whose N inserts all succeeded is
\* answered with count N and N event ids, eventIds[i] the id of input i.
C12_BatchReportsAllIds ==
    \A r \in Slots :
        (req[r].kind = "batch" /\ req[r].pc = "done"
            /\ validateBatchEventData(req[r].body)
            /\ Len(req[r].results) = Len(req[r].body))
        => (req[r].status = 201 /\ IdsAligned(r))

\* The part of C12 that the handler keeps: a batch answered 201 made one
\* insert per input and lists their ids in order.
C12_AnsweredBatchAligned ==
    \A r \in Slots :
        (req[r].kind = "batch" /\ req[r].pc = "done" /\ req[r].status = 201)
        => (Len(req[r].results) = Len(req[r].body) /\ IdsAligned(r))

\* The principals with a defining event of query q in its window, and the
\* start of the bucket that holds a principal's first one.
Principals(q) ==
    {e.user_id : e \in {x \in events : /\ x.name = q.cohortEvent
                                        /\ x.user_id # NULL
                                        /\ x.timestamp >= q.startDate
                                        /\ x.timestamp <= q.endDate}}

FirstBucket(u, q) ==
    LET mine == {x \in events : /\ x.name = q.cohortEvent /\ x.user_id = u
                                /\ x.timestamp >= q.startDate
                                /\ x.timestamp <= q.endDate}
        first == CHOOSE x \in mine : \A y \in mine : x.timestamp <= y.timestamp
    IN first.timestamp - (first.timestamp % DayLen)

\* The members of the cohort whose bucket starts at date.
Members(q, date) == {u \in Principals(q) : FirstBucket(u, q) = date}

\* No event was stored since the cohort analysis read its cohorts.
CohortQuiet == cohort.pc = "done" /\ cohort.status = 200 /\ cohort.startId = nextId

\* C13: in a cohort answer every period's count is at most cohortSize and
\* its retentionRate lies in 0..100.
C13_RetentionBounded ==
    CohortQuiet
    => \A k \in 1..Len(cohort.cohorts) :
          \A p \in 1..Len(cohort.cohorts[k].periods) :
              /\ cohort.cohorts[k].periods[p].count <= cohort.cohorts[k].cohortSize
              /\ cohort.cohorts[k].periods[p].retentionRate >= 0
              /\ cohort.cohorts[k].periods[p].retentionRate <= 10000

\* The rows follow the table they were read from: one row per bucket that
\* holds some principal's first defining event, its size the number of those
\* principals.
RECURSIVE SumSizes(_)
SumSizes(rows) == IF rows = <<>> THEN 0 ELSE Head(rows).cohort_size + SumSizes(Tail(rows))

C14_RowsRight(rows, q) ==
    /\ \A u \in Principals(q) :
        Cardinality({k \in 1..Len(rows) : rows[k].cohort_date = FirstBucket(u, q)}) = 1
    /\ \A k \in 1..Len(rows) :
        /\ rows[k].cohort_size = Cardinality(Members(q, rows[k].cohort_date))
        /\ rows[k].cohort_size >= 1
    /\ SumSizes(rows) = Cardinality(Principals(q))

\* The step in which simpleCohortQuery returns reads the rows right.
C14_ReadRight ==
    (cohort.pc = "sizes" /\ cohort'.pc \in {"period", "done"} /\ cohort'.status # 500)
    => C14_RowsRight(cohort'.rows, cohort'.query)

\* The answer lists the rows read, and totalUsers is the sum of their sizes.
C14_Answered ==
    (cohort.pc = "done" /\ cohort.status = 200)
    => /\ Len(cohort.cohorts) = Len(cohort.rows)
       /\ \A k \in 1..Len(cohort.rows) :
            /\ cohort.cohorts[k].cohortDate = cohort.rows[k].cohort_date
            /\ cohort.cohorts[k].cohortSize = cohort.rows[k].cohort_size
       /\ cohort.totalUsers = SumSizes(cohort.rows)

C15_PeriodCountsMembers ==
    CohortQuiet
    => \A k \in 1..Len(cohort.cohorts) :
          \A p \in 1..Len(cohort.cohorts[k].periods) :
              cohort.cohorts[k].periods[p].count =
                Cardinality({u \in Members(cohort.query, cohort.cohorts[k].cohortDate) :
                    \E e \in events :
                        /\ e.name = cohort.query.returnEvent /\ e.user_id = u
                        /\ e.timestamp >= cohort.cohorts[k].cohortDate + (p - 1) * DayLen
                        /\ e.timestamp < cohort.cohorts[k].cohortDate + p * DayLen})

\* C16: in a funnel answer step 1 has conversionRate 100 and step i > 1 has
\* conversionRate count_i / count_1 * 100 (rounded to two decimals), the
\* conversion from the first step. Stated for the answers whose counts do
\* not increase down the funnel.
C16_ConversionFromFirstStep ==
    (funnel.pc = "done" /\ funnel.status = 200 /\ C2_FunnelMonotone)
    => /\ funnel.stepResults[1].conversionRate = 10000
       /\ \A i \in 2..Len(funnel.steps) :
            funnel.stepResults[1].count > 0
            => funnel.stepResults[i].conversionRate =
                 MathRound(funnel.stepResults[i].count * 10000, funnel.stepResults[1].count)

\* C17: an optimized answer by hour was read from a rollup that covers the
\* requested window: the window does not start before the hourly view does.
C17_RollupCoversWindow ==
    (overTime.pc = "done" /\ overTime.status = 200
        /\ overTime.interval = "hour" /\ overTime.optimized)
    => overTime.start >= overTime.hourlyFrom

\* C18: the event a single-event request stored carries the client's
\* timestamp when the body has one, and a time of the ingestion otherwise.
C18_ClientTimestampKept ==
    \A r \in Slots :
        (req[r].kind = "single" /\ req[r].pc = "done" /\ req[r].status = 201)
        => \A e \in events :
              e.id = req[r].results[1]
              => IF req[r].body[1].timestamp # NoTimestamp
                 THEN e.timestamp = NewDate(req[r].body[1].timestamp)
                 ELSE e.timestamp <= now

\* The (name, properties, sessionId, occurredAt) of a stored event.
StoredTuple(e) == <<e.name, e.properties, e.session_id, e.timestamp>>

\* The records of the export have been posted and the request answered 201.
Reingested ==
    exported.pc = "sent" /\ req[1].pc = "done" /\ req[1].status = 201

SentAfterActivity ==
    /\ client.sent.at # NoActivity
    /\ client.sent.prevSessionId # NoSession
    /\ client.sent.prevActivity # NoActivity

\* C20: an event tracked more than sessionTimeout after the previous
\* activity is sent under a new session id, one tracked within the timeout
\* under the session id there was.
C20_SessionRollsOver ==
    SentAfterActivity
    => IF client.sent.at - client.sent.prevActivity > client.sent.sessionTimeout
       THEN client.sent.sessionId # client.sent.prevSessionId
       ELSE client.sent.sessionId = client.sent.prevSessionId

\* track itself never changes a session id there is.
C20_TrackKeepsSession ==
    SentAfterActivity => client.sent.sessionId = client.sent.prevSessionId

\* C21: an event scan answered with rows (event query, replay event listing,
\* export) returns at most HardCap of them, whatever limit was asked for.
C21_ScanCapped ==
    (scan.kind \in {"events", "replay", "export"} /\ scan.status = 200)
    => scan.data <= HardCap

\* The event query alone keeps the cap.
C21_EventQueryCapped ==
    (scan.kind = "events" /\ scan.status = 200) => scan.data <= HardCap

\* The rows are in ascending order of timestamp, rows of one timestamp in
\* ascending order of id.
AscendingById(q) ==
    \A j, k \in 1..Len(q) :
        j < k => \/ q[j].timestamp < q[k].timestamp
                 \/ q[j].timestamp = q[k].timestamp /\ q[j].id < q[k].id

\* The rows are in descending order of timestamp, rows of one timestamp in
\* ascending order of id.
DescendingById(q) ==
    \A j, k \in 1..Len(q) :
        j < k => \/ q[j].timestamp > q[k].timestamp
                 \/ q[j].timestamp = q[k].timestamp /\ q[j].id < q[k].id

\* C22: the events a session replay or an event list returns are ordered
\* by timestamp (ascending for the replay, descending for the list), events
\* of one timestamp by id (for the list, in one direction or the other).
C22_TotalOrder ==
    /\ (scan.kind = "session" /\ scan.status = 200) => AscendingById(scan.data.events)
    /\ (scan.kind = "list" /\ scan.status = 200)
        => DescendingById(scan.data) \/ AscendingById(Reverse(scan.data))

\* The ids are given in insertion order and the results are ordered by
\* timestamp.
C22_OrderedByTimestamp ==
    /\ \A e \in events : e.id < nextId
    /\ (scan.kind = "session" /\ scan.status = 200)
        => \A j, k \in 1..Len(scan.data.events) :
              j < k => scan.data.events[j].timestamp <= scan.data.events[k].timestamp
    /\ (scan.kind = "list" /\ scan.status = 200)
        => \A j, k \in 1..Len(scan.data) :
              j < k => scan.data[j].timestamp >= scan.data[k].timestamp

\* C23: a session replay returns all the events the session had, in
\* non-decreasing order of timestamp, each with relativeTimeMs its timestamp
\* minus the first one's: never negative, 0 for the first, durationMs for the
\* last.
C23_SessionReplay ==
    (scan.kind = "session" /\ scan.status = 200)
    => LET r == scan.data
           had == {e \in events : e.session_id = r.sessionId /\ e.id < scan.params.nextId}
       IN /\ had # {}
          /\ {r.events[k].id : k \in 1..Len(r.events)} = {e.id : e \in had}
          /\ Len(r.events) = Cardinality(had)
          /\ \A k \in 1..Len(r.events) :
                /\ \E e \in had : e.id = r.events[k].id /\ e.timestamp = r.events[k].timestamp
                /\ r.events[k].relativeTimeMs = r.events[k].timestamp - r.events[1].timestamp
                /\ r.events[k].relativeTimeMs >= 0
                /\ k > 1 => r.events[k - 1].timestamp <= r.events[k].timestamp
          /\ r.events[1].relativeTimeMs = 0
          /\ r.durationMs = r.events[Len(r.events)].relativeTimeMs

\* A replay of three events, the last one later than the second, the second
\* later than the first.
C23_Witness ==
    /\ scan.kind = "session" /\ scan.status = 200
    /\ Len(scan.data.events) = 3
    /\ scan.data.events[1].timestamp < scan.data.events[2].timestamp
    /\ scan.data.events[2].timestamp < scan.data.events[3].timestamp
    /\ scan.data.durationMs > 0

\* The events the timeline's window held when the query ran.
InWindow ==
    {e \in events : /\ e.id < scan.params.nextId
                    /\ e.timestamp >= scan.params.startDate
                    /\ e.timestamp <= scan.params.endDate}

RECURSIVE SumCounts(_, _)
SumCounts(f, S) ==
    IF S = {} THEN 0
    ELSE LET n == CHOOSE x \in S : TRUE IN f[n] + SumCounts(f, S \ {n})

\* The buckets are ascending and not empty, and every event of the window
\* is counted in the one bucket that contains it.
C24_BucketsPartition ==
    (scan.kind = "timeline" /\ scan.status = 200)
    => LET b == scan.data
       IN /\ \A j, k \in 1..Len(b) : j < k => b[j].bucketEnd <= b[k].bucketStart
          /\ \A k \in 1..Len(b) :
                /\ b[k].eventCount >= 1
                /\ b[k].bucketEnd = b[k].bucketStart + scan.params.bucketSizeMs
                /\ b[k].eventCount =
                     Cardinality({e \in InWindow : /\ e.timestamp >= b[k].bucketStart
                                                   /\ e.timestamp < b[k].bucketEnd})
          /\ \A e \in InWindow :
                \E k \in 1..Len(b) : /\ e.timestamp >= b[k].bucketStart
                                     /\ e.timestamp < b[k].bucketEnd

\* C24: the timeline is a sparse ascending sequence of buckets, every event
\* of the window counted in the bucket that contains it, and a bucket's
\* eventCount is the sum of its counts per event name.
C24_TimelineBuckets ==
    /\ C24_BucketsPartition
    /\ (scan.kind = "timeline" /\ scan.status = 200)
       => \A k \in 1..Len(scan.data) :
             scan.data[k].eventCount =
                SumCounts(scan.data[k].eventTypes, DOMAIN scan.data[k].eventTypes)

\* A step leaves every event it does not delete as it was.
EventsKept == \A e \in events : \A f \in events' : f.id = e.id => f = e

\* C25: no step changes an attribute of a stored event: events are added
\* or deleted, never updated.
C25_EventsImmutable == [][EventsKept]_vars

\* A read (here the session replay) writes to no table.
C25_ReadsWriteNothing ==
    [][scan' # scan => UNCHANGED <<events, nextId, sessions, daily_event_stats,
                                   hourly_event_stats>>]_vars

\* C26: a refresh request answered with success has recomputed the rollups;
\* one whose recomputation failed is not answered with success.
C26_RefreshReportsFailure ==
    \A r \in RefreshSlots :
        (refresh[r].pc = "done" /\ refresh[r].status = 200) => refresh[r].recomputed

\* C27: a call of track, trackBatch or identify on a client that is not
\* initialized sends no request; whatever call sends a request does so on
\* an initialized client; trackBatch with no event sends none and gives its
\* callback an Error.
C27_NoSendUninitialized ==
    /\ client.call.requests > 0 => client.call.initialized
    /\ (client.call.name \in {"track", "trackBatch", "trackBatchEmpty", "identify"}
          /\ ~client.call.initialized)
       => client.call.requests = 0
    /\ client.call.name = "trackBatchEmpty"
       => client.call.requests = 0 /\ client.call.error
    /\ (client.call.name = "trackBatch" /\ ~client.call.initialized) => client.call.error

\* track was called after a destroy() that followed a successful init().
C27_Witness ==
    /\ client.call.name = "track"
    /\ ~client.call.initialized
    /\ client.call.requests = 0
    /\ client.generated > 0
    /\ client.sessionId = NoSession

\* C28: a single-event request that has been answered stored its event if
\* and only if the answer is 201.
C28_SingleAllOrNothing ==
    \A r \in Slots :
        (req[r].kind = "single" /\ req[r].pc = "done")
        => ((req[r].status = 201)
            <=> (\E e \in events : \E k \in 1..Len(req[r].results) :
                    e.id = req[r].results[k]))

\* The summary was answered from the daily view, the view holding what a
\* refresh computes from the events there were.
FreshSummary ==
    /\ scan.kind = "summary" /\ scan.status = 200
    /\ scan.params.optimized /\ scan.params.fresh

\* C29: a summary answered from the freshly refreshed daily view has the
\* totalEvents, uniqueSessions and uniqueUsers the raw fallback counts for
\* the same window of whole days.
C29_SummaryAgrees == FreshSummary => scan.data = scan.params.raw

\* The totals of events agree.
C29_TotalEventsAgree ==
    FreshSummary => scan.data.totalEvents = scan.params.raw.totalEvents

\* The client holds the session localStorage holds, with its last activity:
\* a page load followed by init() and a visibility change meet the same idle
\* duration, now - lastActivity.
SessionStored ==
    /\ client.initialized
    /\ client.sessionId # NoSession /\ client.sessionId = client.stored.id
    /\ client.lastActivity # NoActivity
    /\ client.lastActivity = client.stored.lastActivity

\* init() on a new page would restore the stored session.
WouldRestore == initSession(client, NoSession).sessionId = client.stored.id

\* The visibility-change check would give the client a new session id.
WouldRotate == checkSession(client).sessionId # client.sessionId

\* C30: for every idle duration, init() restores the stored session if and
\* only if the visibility-change check would keep the session id.
C30_ExpiryChecksAgree == SessionStored => (WouldRestore <=> ~WouldRotate)

\* The two checks agree for every idle duration other than the timeout.
C30_AgreeOffBoundary ==
    (SessionStored /\ client.now - client.lastActivity # client.sessionTimeout)
    => (WouldRestore <=> ~WouldRotate)

====
